---- MODULE Spec2Model ----
(***************************************************************************)
(* Model of the llmrouter request-dispatch core: the per-provider circuit  *)
(* breaker (app/circuit_breaker.py), the Router's dispatch with its exact  *)
(* TTL cache (app/router.py) and the semantic cache                        *)
(* (app/semantic_cache.py).                                                *)
(***************************************************************************)
EXTENDS Integers, Sequences, FiniteSets, TLC

(* ------------------------------ bounds -------------------------------- *)
\* the clock stops advancing at MaxTime
MaxTime == 2
\* within a Router no provider fails once its breaker counts MaxFailures
MaxFailures == 2
\* a breaker driven on its own takes record_failure up to this count
MaxBreakerFailures == 4

(* --------------------------- CircuitState ----------------------------- *)
CLOSED == "closed"
OPEN == "open"
HALF_OPEN == "half_open"
CircuitState == {CLOSED, OPEN, HALF_OPEN}

\* Optional[float] _last_failure: NoTime stands for None
NoTime == -1

VARIABLES
    providers,   \* Router._providers: entries sorted by priority
    breakers,    \* breakers[i]: the CircuitBreaker of providers[i]
    now,         \* time.time()
    settings,    \* Router._cache_ttl, _semantic_enabled, threshold default, max_entries
    cache,       \* Router._cache: key -> (ProviderResult, expires_at)
    entries,     \* SemanticCache._entries
    plock,       \* plock[i]: the task holding providers[i]'s Provider._lock, or 0
    tasks,       \* the dispatches (Router.chat_completion calls) in progress
    callers,     \* the tasks that call the Router, each with the requests it sends
    consec,      \* history: record_failure calls since the last record_success
    lastFailAt,  \* history: time of the most recent record_failure
    written,     \* history: per cache key, the last two entries _cache_set
                 \* stored under it, the most recent first
    added,       \* history: the arguments of every SemanticCache.add, in order
    lastOp,      \* history: the most recent operation on a component driven
                 \* on its own, and its result
    heap,        \* the tool-call lists and tool calls allocated, by address
    held,        \* held[c]: the tool-call lists caller c holds a reference to
    _model,      \* SemanticCache._model: None, or the SentenceTransformer
    loads        \* history: the SentenceTransformer objects constructed

vars == <<providers, breakers, now, settings, cache, entries, plock, tasks, callers,
          consec, lastFailAt, written, added, lastOp, heap, held, _model, loads>>

\* the state of the Router, and the call history kept for the breaker claims
routerVars == <<settings, cache, entries, plock, tasks, callers>>
histVars == <<consec, lastFailAt, written, added, lastOp>>
\* the objects of the callers that use the caches directly
objectVars == <<heap, held>>
\* the embedding model of the SemanticCache
embedVars == <<_model, loads>>

(* ------------------------- configuration ------------------------------ *)
\* model names are character sequences, so that normalisation is computed
S_Lx == <<"L", " ", "x">>
S_l_x == <<"l", "_", "x">>
S_lx == <<"l", "-", "x">>
S_Y == <<"Y">>
S_zz == <<"z", "z">>
S_none == <<>>

\* ProviderConfig descriptors, in configuration order
CfgA(priority) ==
    [name |-> "A", priority |-> priority,
     failure_threshold |-> 1, recovery_time_seconds |-> 1,
     canonical_model |-> S_l_x, aliases |-> {}]
CfgB(priority) ==
    [name |-> "B", priority |-> priority,
     failure_threshold |-> 2, recovery_time_seconds |-> 2,
     canonical_model |-> S_lx, aliases |-> {S_Y}]
CfgC(priority, failure_threshold) ==
    [name |-> "C", priority |-> priority,
     failure_threshold |-> failure_threshold, recovery_time_seconds |-> 1,
     canonical_model |-> S_none, aliases |-> {S_zz \o <<"1">>, S_Lx}]

\* position of a descriptor in the configuration
CfgPos(name) == IF name = "A" THEN 1 ELSE IF name = "B" THEN 2 ELSE 3

\* Router._build_providers: sorted(provider_configs, key=priority), stable
InsertByPriority_unstable(sorted, cfg) ==
    LET k == Cardinality({j \in 1..Len(sorted) : sorted[j].priority < cfg.priority})
    IN  SubSeq(sorted, 1, k) \o <<cfg>> \o SubSeq(sorted, k + 1, Len(sorted))

InsertByPriority(sorted, cfg) ==
    LET k == Cardinality({j \in 1..Len(sorted) : sorted[j].priority <= cfg.priority})
    IN  SubSeq(sorted, 1, k) \o <<cfg>> \o SubSeq(sorted, k + 1, Len(sorted))

RECURSIVE SortedByPriority(_)
SortedByPriority(cfgs) ==
    IF cfgs = <<>> THEN <<>>
    ELSE InsertByPriority(SortedByPriority(SubSeq(cfgs, 1, Len(cfgs) - 1)),
                          cfgs[Len(cfgs)])

_build_providers(cfgs) == SortedByPriority(cfgs)

(* ------------------------ model-name matching ------------------------- *)
\* str.lower() on the characters that occur in the modelled names
LowerChar(c) ==
    CASE c = "L" -> "l"
      [] c = "X" -> "x"
      [] c = "Y" -> "y"
      [] c = "F" -> "f"
      [] c = "R" -> "r"
      [] c = "E" -> "e"
      [] OTHER -> c

lower(str) == [k \in 1..Len(str) |-> LowerChar(str[k])]

IsSpace(c) == c \in {" ", "\t"}

RECURSIVE lstrip(_)
lstrip(str) ==
    IF str # <<>> /\ IsSpace(str[1]) THEN lstrip(Tail(str)) ELSE str

RECURSIVE rstrip(_)
rstrip(str) ==
    IF str # <<>> /\ IsSpace(str[Len(str)])
    THEN rstrip(SubSeq(str, 1, Len(str) - 1)) ELSE str

strip(str) == rstrip(lstrip(str))

FREE == <<":", "f", "r", "e", "e">>

\* str.replace(old, ""): every non-overlapping occurrence, left to right
RECURSIVE remove_all(_, _)
remove_all(str, old) ==
    IF Len(str) < Len(old) THEN str
    ELSE IF SubSeq(str, 1, Len(old)) = old
         THEN remove_all(SubSeq(str, Len(old) + 1, Len(str)), old)
         ELSE <<str[1]>> \o remove_all(Tail(str), old)

replace_char(str, a, b) == [k \in 1..Len(str) |-> IF str[k] = a THEN b ELSE str[k]]

\* re.sub(r"<class>+", "-", str): each maximal run of characters of the
\* class becomes one hyphen
RECURSIVE sub_runs(_, _)
sub_runs(str, class) ==
    IF str = <<>> THEN <<>>
    ELSE IF str[1] \in class
         THEN IF Len(str) >= 2 /\ str[2] \in class
              THEN sub_runs(Tail(str), class)
              ELSE <<"-">> \o sub_runs(Tail(str), class)
         ELSE <<str[1]>> \o sub_runs(Tail(str), class)

_normalize_model_name(name) ==
    LET n1 == lower(strip(name))
        n2 == remove_all(n1, FREE)
        n3 == replace_char(n2, "_", "-")
        n4 == sub_runs(n3, {" ", "\t"})
    IN  sub_runs(n4, {"-"})

\* one entry of the comprehension that builds candidate_providers
Matches(cfg, model) ==
    LET normalized == _normalize_model_name(model)
    IN  \/ normalized \in {lower(alias) : alias \in cfg.aliases}
        \/ normalized = _normalize_model_name(cfg.canonical_model)

AllProviders(provs) == [k \in 1..Len(provs) |-> k]

\* the list comprehension over the first n entries of Router._providers
RECURSIVE MatchingUpTo(_, _, _)
MatchingUpTo(provs, model, n) ==
    IF n = 0 THEN <<>>
    ELSE MatchingUpTo(provs, model, n - 1)
         \o (IF Matches(provs[n], model) THEN <<n>> ELSE <<>>)

candidate_providers(provs, model) == MatchingUpTo(provs, model, Len(provs))

\* the indices of seq, then the other entries of Router._providers
WithFallback(provs, seq) ==
    seq \o SelectSeq(AllProviders(provs), LAMBDA k : \A j \in 1..Len(seq) : seq[j] # k)

provider_sequence_with_fallback(provs, model) ==
    IF lower(model) # <<>>
    THEN WithFallback(provs, candidate_providers(provs, model))
    ELSE AllProviders(provs)

provider_sequence_no_fallback(provs, model) ==
    IF lower(model) # <<>>
    THEN candidate_providers(provs, model)
    ELSE AllProviders(provs)

\* provider_sequence of chat_completion, as indices into Router._providers
provider_sequence(provs, model) ==
    IF lower(model) # <<>>
    THEN IF candidate_providers(provs, model) # <<>>
         THEN candidate_providers(provs, model)
         ELSE AllProviders(provs)
    ELSE AllProviders(provs)

(* ---------------------------- exact cache ----------------------------- *)
\* Optional values: <<>> is None, <<v>> is v
None == <<>>
Some(v) == <<v>>

_ttl_enabled(cfg) == cfg.cache_ttl > 0

\* LLMROUTER_DEFAULT_MODEL, by default "gpt-3.5-turbo"
_default_model == <<"g", "p", "t", "-", "3", ".", "5", "-", "t", "u", "r", "b", "o">>

\* the value of a field of a request body, or the default of the schema
FieldOr(body, field, default) == IF field \in DOMAIN body THEN body[field] ELSE default

\* ChatCompletionRequest built from a request body: absent fields take
\* their defaults; temperature and top_p are in tenths
ChatCompletionRequest(body) ==
    [model |-> FieldOr(body, "model", _default_model),
     messages |-> body.messages,
     temperature |-> FieldOr(body, "temperature", Some(10)),
     top_p |-> FieldOr(body, "top_p", Some(10)),
     max_tokens |-> FieldOr(body, "max_tokens", None),
     tools |-> FieldOr(body, "tools", None),
     tool_choice |-> FieldOr(body, "tool_choice", None),
     tool_calls |-> <<>>]

\* the field names of the key, in the order sort_keys=True puts them
SortedKeys == <<"max_tokens", "messages", "model", "temperature", "tool_choice",
                "tools", "top_p">>
\* the fields whose value may be None
OptionalFields == {"temperature", "top_p", "max_tokens", "tools", "tool_choice"}

\* payload.dict(include={...}, exclude_none=True)
dict_include(payload, include) ==
    [f \in {g \in include : g \notin OptionalFields \/ payload[g] # None} |->
        IF f \in OptionalFields THEN payload[f][1] ELSE payload[f]]

\* json.dumps(body, sort_keys=True): the items in sorted key order
dumps_sorted(body) ==
    LET keys == SelectSeq(SortedKeys, LAMBDA f : f \in DOMAIN body)
    IN  [k \in 1..Len(keys) |-> <<keys[k], body[keys[k]]>>]

_cache_key_without_top_p(payload) ==
    dumps_sorted(dict_include(payload, {"model", "messages", "temperature",
                                        "max_tokens", "tools", "tool_choice"}))

_cache_key(payload) ==
    dumps_sorted(dict_include(payload, {"model", "messages", "temperature", "top_p",
                                        "max_tokens", "tools", "tool_choice"}))

\* the ProviderResult built field by field from another one
CopyResult(r) ==
    [provider_name |-> r.provider_name, content |-> r.content,
     tool_calls |-> r.tool_calls]

_cache_get_purging(cfg, c, key, t) ==
    IF ~_ttl_enabled(cfg) THEN [cache |-> c, result |-> None]
    ELSE IF key \notin DOMAIN c THEN [cache |-> c, result |-> None]
    ELSE IF c[key].expires_at < t
         THEN [cache |-> <<>>, result |-> None]
         ELSE [cache |-> c, result |-> Some(CopyResult(c[key].result))]

_cache_get_inverted(cfg, c, key, t) ==
    IF ~_ttl_enabled(cfg) THEN [cache |-> c, result |-> None]
    ELSE IF key \notin DOMAIN c THEN [cache |-> c, result |-> None]
    ELSE IF c[key].expires_at >= t
         THEN [cache |-> [k \in DOMAIN c \ {key} |-> c[k]], result |-> None]
         ELSE [cache |-> c, result |-> Some(CopyResult(c[key].result))]

_cache_get_no_delete(cfg, c, key, t) ==
    IF ~_ttl_enabled(cfg) THEN [cache |-> c, result |-> None]
    ELSE IF key \notin DOMAIN c THEN [cache |-> c, result |-> None]
    ELSE IF c[key].expires_at < t
         THEN [cache |-> c, result |-> None]
         ELSE [cache |-> c, result |-> Some(CopyResult(c[key].result))]

\* _cache_get: the map after the call and the value returned
_cache_get(cfg, c, key, t) ==
    IF ~_ttl_enabled(cfg) THEN [cache |-> c, result |-> None]
    ELSE IF key \notin DOMAIN c THEN [cache |-> c, result |-> None]
    ELSE IF c[key].expires_at < t
         THEN [cache |-> [k \in DOMAIN c \ {key} |-> c[k]], result |-> None]
         ELSE [cache |-> c, result |-> Some(CopyResult(c[key].result))]

_cache_set_always(cfg, c, key, result, t) ==
    [k \in DOMAIN c \cup {key} |->
        IF k = key
        THEN [result |-> CopyResult(result), expires_at |-> t + cfg.cache_ttl]
        ELSE c[k]]

_cache_set_keep_first(cfg, c, key, result, t) ==
    IF ~_ttl_enabled(cfg) \/ key \in DOMAIN c THEN c
    ELSE [k \in DOMAIN c \cup {key} |->
            IF k = key
            THEN [result |-> CopyResult(result), expires_at |-> t + cfg.cache_ttl]
            ELSE c[k]]

_cache_set(cfg, c, key, result, t) ==
    IF ~_ttl_enabled(cfg) THEN c
    ELSE [k \in DOMAIN c \cup {key} |->
            IF k = key
            THEN [result |-> CopyResult(result), expires_at |-> t + cfg.cache_ttl]
            ELSE c[k]]

\* the history of the entries stored, after _cache_set(key, result) at t
Remember(cfg, w, key, result, t) ==
    IF ~_ttl_enabled(cfg) THEN w
    ELSE [k \in DOMAIN w \cup {key} |->
            IF k = key
            THEN <<[result |-> result, at |-> t]>>
                 \o (IF key \in DOMAIN w THEN <<w[key][1]>> ELSE <<>>)
            ELSE w[k]]

(* --------------------------- semantic cache --------------------------- *)
_serialize_payload(payload) ==
    [model |-> payload.model, messages |-> payload.messages,
     tools |-> IF payload.tools = None THEN <<>> ELSE payload.tools[1],
     tool_choice |-> payload.tool_choice]

\* model.encode(text, normalize_embeddings=True) as float32: vectors in
\* tenths, so that the dot product is in hundredths. The norm of a
\* normalised float32 vector is 1 only up to rounding: the vector of the
\* request that names no model has a norm just below 1.
_embed(text) ==
    IF text.model = S_Lx THEN <<10, 0>>
    ELSE IF text.model = <<>> THEN <<7, 7>>
    ELSE IF text.messages = "q1" THEN <<8, 6>> ELSE <<0, 10>>

\* np.dot in hundredths, the unit the thresholds are given in
Similarity(u, v) == u[1] * v[1] + u[2] * v[2]

RECURSIVE scan_last_admitted(_, _, _, _, _)
scan_last_admitted(es, k, query, best_similarity, best_entry) ==
    IF k > Len(es) THEN best_entry
    ELSE LET similarity == Similarity(query, es[k].embedding)
         IN  IF similarity >= best_similarity
             THEN scan_last_admitted(es, k + 1, query, best_similarity, Some(es[k]))
             ELSE scan_last_admitted(es, k + 1, query, best_similarity, best_entry)

RECURSIVE scan_strict(_, _, _, _, _)
scan_strict(es, k, query, best_similarity, best_entry) ==
    IF k > Len(es) THEN best_entry
    ELSE LET similarity == Similarity(query, es[k].embedding)
         IN  IF similarity > best_similarity
             THEN scan_strict(es, k + 1, query, similarity, Some(es[k]))
             ELSE scan_strict(es, k + 1, query, best_similarity, best_entry)

\* the scan of SemanticCache.get over entries k..Len: the best entry found
RECURSIVE scan(_, _, _, _, _)
scan(es, k, query, best_similarity, best_entry) ==
    IF k > Len(es) THEN best_entry
    ELSE LET similarity == Similarity(query, es[k].embedding)
         IN  IF similarity >= best_similarity
             THEN scan(es, k + 1, query, similarity, Some(es[k]))
             ELSE scan(es, k + 1, query, best_similarity, best_entry)

\* SemanticCache.get once the query is embedded
semantic_get(es, query, threshold) ==
    IF threshold <= 0 THEN None
    ELSE LET best == scan(es, 1, query, threshold, None)
         IN  IF best = None THEN None
             ELSE Some([provider_name |-> best[1].provider_name,
                        content |-> best[1].content,
                        tool_calls |-> best[1].tool_calls])

semantic_add_one_over(cfg, es, embedding, result) ==
    LET appended == Append(es, [embedding |-> embedding,
                                provider_name |-> result.provider_name,
                                content |-> result.content,
                                tool_calls |-> result.tool_calls])
    IN  IF Len(appended) > cfg.max_entries + 1 THEN Tail(appended) ELSE appended

semantic_add_evict_newest(cfg, es, embedding, result) ==
    LET appended == Append(es, [embedding |-> embedding,
                                provider_name |-> result.provider_name,
                                content |-> result.content,
                                tool_calls |-> result.tool_calls])
    IN  IF Len(appended) > cfg.max_entries
        THEN SubSeq(appended, 1, Len(appended) - 1) ELSE appended

\* SemanticCache.add once the payload is embedded
semantic_add(cfg, es, embedding, result) ==
    LET appended == Append(es, [embedding |-> embedding,
                                provider_name |-> result.provider_name,
                                content |-> result.content,
                                tool_calls |-> result.tool_calls])
    IN  IF Len(appended) > cfg.max_entries THEN Tail(appended) ELSE appended

(* -------------------------- CircuitBreaker ---------------------------- *)
NewBreaker == [state |-> CLOSED, failure_count |-> 0, last_failure |-> NoTime]

allow_request_forgetting(b, cfg, t) ==
    IF b.state = CLOSED THEN [breaker |-> b, result |-> TRUE]
    ELSE IF b.state = OPEN THEN
        IF b.last_failure = NoTime THEN [breaker |-> b, result |-> FALSE]
        ELSE IF t - b.last_failure >= cfg.recovery_time_seconds
             THEN [breaker |-> [b EXCEPT !.state = HALF_OPEN, !.failure_count = 0],
                   result |-> TRUE]
             ELSE [breaker |-> b, result |-> FALSE]
    ELSE [breaker |-> b, result |-> TRUE]

allow_request_staying_open(b, cfg, t) ==
    IF b.state = CLOSED THEN [breaker |-> b, result |-> TRUE]
    ELSE IF b.state = OPEN THEN [breaker |-> b, result |-> FALSE]
    ELSE [breaker |-> b, result |-> TRUE]

allow_request_closing(b, cfg, t) ==
    IF b.state = CLOSED THEN [breaker |-> b, result |-> TRUE]
    ELSE IF b.state = OPEN THEN
        IF b.last_failure = NoTime THEN [breaker |-> b, result |-> FALSE]
        ELSE IF t - b.last_failure >= cfg.recovery_time_seconds
             THEN [breaker |-> [b EXCEPT !.state = CLOSED], result |-> TRUE]
             ELSE [breaker |-> b, result |-> FALSE]
    ELSE [breaker |-> b, result |-> TRUE]

allow_request_one_trial(b, cfg, t) ==
    IF b.state = CLOSED THEN [breaker |-> b, result |-> TRUE]
    ELSE IF b.state = OPEN THEN
        IF b.last_failure = NoTime THEN [breaker |-> b, result |-> FALSE]
        ELSE IF t - b.last_failure >= cfg.recovery_time_seconds
             THEN [breaker |-> [b EXCEPT !.state = HALF_OPEN], result |-> TRUE]
             ELSE [breaker |-> b, result |-> FALSE]
    ELSE [breaker |-> b, result |-> FALSE]

\* allow_request: the breaker after the call and the value returned
allow_request(b, cfg, t) ==
    IF b.state = CLOSED THEN [breaker |-> b, result |-> TRUE]
    ELSE IF b.state = OPEN THEN
        IF b.last_failure = NoTime THEN [breaker |-> b, result |-> FALSE]
        ELSE IF t - b.last_failure >= cfg.recovery_time_seconds
             THEN [breaker |-> [b EXCEPT !.state = HALF_OPEN], result |-> TRUE]
             ELSE [breaker |-> b, result |-> FALSE]
    ELSE [breaker |-> b, result |-> TRUE]

record_success_only_half_open(b) ==
    IF b.state = HALF_OPEN
    THEN [state |-> CLOSED, failure_count |-> 0, last_failure |-> NoTime]
    ELSE [b EXCEPT !.failure_count = 0]

record_success(b) ==
    [state |-> CLOSED, failure_count |-> 0, last_failure |-> NoTime]

record_failure_strict(b, cfg, t) ==
    LET c == b.failure_count + 1
    IN  [state |-> IF c > cfg.failure_threshold THEN OPEN ELSE CLOSED,
         failure_count |-> c, last_failure |-> t]

record_failure_resetting(b, cfg, t) ==
    LET c == b.failure_count + 1
    IN  IF c >= cfg.failure_threshold
        THEN [state |-> OPEN, failure_count |-> 0, last_failure |-> t]
        ELSE [state |-> CLOSED, failure_count |-> c, last_failure |-> t]

record_failure_keep_stamp(b, cfg, t) ==
    LET c == b.failure_count + 1
    IN  [state |-> IF c >= cfg.failure_threshold THEN OPEN ELSE CLOSED,
         failure_count |-> c,
         last_failure |-> IF b.state = OPEN THEN b.last_failure ELSE t]

record_failure(b, cfg, t) ==
    LET c == b.failure_count + 1
    IN  [state |-> IF c >= cfg.failure_threshold THEN OPEN ELSE CLOSED,
         failure_count |-> c, last_failure |-> t]

(* ------------------------------ Router -------------------------------- *)
\* the callers whose chat_completion calls run concurrently
Tasks == {1, 2}

\* ChatCompletionRequest bodies the callers send
Requests == { [model |-> S_Lx, messages |-> "q1"],
              [model |-> S_zz, messages |-> "q1"],
              [model |-> <<>>, messages |-> "q1"] }

\* what the upstream of each provider answers: the text complete() returns
\* and the tool calls it leaves on the payload (empty when there are none)
Responses(name) ==
    IF name = "A" THEN { [content |-> "r1", tool_calls |-> <<>>] }
    ELSE IF name = "B" THEN { [content |-> "r2", tool_calls |-> <<[id |-> "call1", function |-> "f"]>>] }
    ELSE { [content |-> "r1", tool_calls |-> <<[id |-> "call1", function |-> "f"]>>] }

\* what each provider's complete() raises when it fails: a ProviderError,
\* or another Exception (the two handlers of the attempt loop)
Failures(name) == IF name = "A" THEN {"Exception"} ELSE {"ProviderError"}

\* the per-call arguments semantic_enabled and semantic_threshold
SemanticEnabledChoices == {None, Some(TRUE), Some(FALSE)}
SemanticThresholdChoices == {None, Some(0), Some(80)}

\* the configurations a Router is constructed from: the provider list and
\* the environment (thresholds in hundredths)
NoCaches == [cache_ttl |-> 0, semantic_enabled |-> FALSE, threshold_default |-> 85, max_entries |-> 1]
BothCaches == [cache_ttl |-> 1, semantic_enabled |-> TRUE, threshold_default |-> 85, max_entries |-> 1]

\* a configuration comes with the callers that use the Router concurrently
\* and the requests each of them sends
Named == {req \in Requests : req.model # <<>>}
Unmatched == {req \in Requests : req.model # S_Lx}

ConfigChoices ==
    { [providers |-> <<CfgA(10), CfgB(10), CfgC(0, 1)>>, settings |-> NoCaches,
       callers |-> [d \in {1} |-> Requests]],
      [providers |-> <<CfgB(10), CfgA(0)>>, settings |-> NoCaches,
       callers |-> [d \in {1, 2} |-> Unmatched]],
      [providers |-> <<CfgA(0)>>, settings |-> BothCaches,
       callers |-> [d \in {1} |-> Named]] }

\* the breakers checked on their own: thresholds 1, 2 and 3
BreakerConfig ==
    [providers |-> <<CfgA(0), CfgB(10), CfgC(20, 3)>>, settings |-> NoCaches, callers |-> <<>>]

NoResult == [provider_name |-> "", content |-> "", tool_calls |-> <<>>]
NoPayload == ChatCompletionRequest([model |-> <<>>, messages |-> ""])
NoOutcome == [kind |-> "none", via |-> "", result |-> NoResult, msg |-> None]

IdleTask ==
    [pc |-> "idle", payload |-> NoPayload, cache_key |-> _cache_key(NoPayload),
     use_semantic |-> FALSE, threshold |-> 0,
     seq |-> <<>>, i |-> 0, last_error |-> None, result |-> NoResult,
     outcome |-> NoOutcome, trace |-> <<>>, log |-> <<>>]

\* str(exc) of the exception a provider raised
ErrorMessage(name, kind) == [provider |-> name, kind |-> kind]
AllCircuitsOpen == [provider |-> "", kind |-> "All providers are unavailable (circuits open)"]

\* SemanticCache.serialize_tool_calls / deserialize_tool_calls
serialize_tool_calls(tool_calls) ==
    [k \in 1..Len(tool_calls) |-> <<"dict", tool_calls[k].id, tool_calls[k].function>>]
deserialize_tool_calls(dicts) ==
    [k \in 1..Len(dicts) |-> [id |-> dicts[k][2], function |-> dicts[k][3]]]

\* the for loop of chat_completion from candidate k on, up to the first
\* candidate whose breaker admits the request (at = 0: none left)
RECURSIVE attempt_loop_consulting_next(_, _, _, _, _)
attempt_loop_consulting_next(provs, brs, seq, k, t) ==
    IF k > Len(seq) THEN [breakers |-> brs, at |-> 0, events |-> <<>>]
    ELSE LET e == seq[k]
             r == allow_request(brs[e], provs[e], t)
             brs2 == [brs EXCEPT ![e] = r.breaker]
         IN  IF ~r.result
             THEN LET rest == attempt_loop_consulting_next(provs, brs2, seq, k + 1, t)
                  IN  [rest EXCEPT !.events =
                          <<[p |-> e, allowed |-> r.result, outcome |-> "skipped", err |-> None]>> \o @]
             ELSE [breakers |-> IF k < Len(seq)
                                THEN [brs2 EXCEPT ![seq[k + 1]] =
                                        allow_request(brs2[seq[k + 1]], provs[seq[k + 1]], t).breaker]
                                ELSE brs2,
                   at |-> k,
                   events |-> <<[p |-> e, allowed |-> r.result, outcome |-> "calling", err |-> None]>>]

RECURSIVE attempt_loop_ungated(_, _, _, _, _)
attempt_loop_ungated(provs, brs, seq, k, t) ==
    IF k > Len(seq) THEN [breakers |-> brs, at |-> 0, events |-> <<>>]
    ELSE LET e == seq[k]
             r == allow_request(brs[e], provs[e], t)
         IN  [breakers |-> [brs EXCEPT ![e] = r.breaker], at |-> k,
              events |-> <<[p |-> e, allowed |-> r.result, outcome |-> "calling", err |-> None]>>]

RECURSIVE attempt_loop(_, _, _, _, _)
attempt_loop(provs, brs, seq, k, t) ==
    IF k > Len(seq) THEN [breakers |-> brs, at |-> 0, events |-> <<>>]
    ELSE LET e == seq[k]
             r == allow_request(brs[e], provs[e], t)
             brs2 == [brs EXCEPT ![e] = r.breaker]
         IN  IF ~r.result
             THEN LET rest == attempt_loop(provs, brs2, seq, k + 1, t)
                  IN  [rest EXCEPT !.events =
                          <<[p |-> e, allowed |-> r.result, outcome |-> "skipped", err |-> None]>> \o @]
             ELSE [breakers |-> brs2, at |-> k,
                   events |-> <<[p |-> e, allowed |-> r.result, outcome |-> "calling", err |-> None]>>]

exhausted_message_generic(last_error) == AllCircuitsOpen

\* the raise statements after the loop
exhausted_message(last_error) ==
    IF last_error # None THEN last_error[1] ELSE AllCircuitsOpen

(* ------------------------------- Init --------------------------------- *)
NoOp == [p |-> 0, op |-> "none", res |-> FALSE, at |-> 0, prev |-> NewBreaker]

Constructed(config) ==
    /\ providers = _build_providers(config.providers)
    /\ breakers = [i \in 1..Len(config.providers) |-> NewBreaker]
    /\ now = 0
    /\ settings = config.settings
    /\ cache = <<>>
    /\ entries = <<>>
    /\ plock = [i \in 1..Len(config.providers) |-> 0]
    /\ tasks = [d \in Tasks |-> IdleTask]
    /\ callers = config.callers
    /\ consec = [i \in 1..Len(config.providers) |-> 0]
    /\ lastFailAt = [i \in 1..Len(config.providers) |-> NoTime]
    /\ written = <<>>
    /\ added = <<>>
    /\ lastOp = NoOp
    /\ heap = <<>>
    /\ held = [c \in Tasks |-> {}]
    /\ _model = None
    /\ loads = 0

Init == \E config \in ConfigChoices : Constructed(config)

InitBreaker == Constructed(BreakerConfig)

\* time passes
Tick ==
    /\ now < MaxTime
    /\ now' = now + 1
    /\ UNCHANGED <<providers, embedVars, objectVars, breakers, routerVars, histVars>>

(* --------------------- Router.chat_completion ------------------------- *)
\* an entry of a dispatch's log of calls on the shared state: the call, and
\* the provider entry it is about (0: a cache)
Access(op, e) == [op |-> op, p |-> e]

\* the calls the attempt loop made for the candidates it went through
RECURSIVE LoopAccesses(_)
LoopAccesses(events) ==
    IF events = <<>> THEN <<>>
    ELSE <<Access("allow_request", Head(events).p)>>
         \o (IF Head(events).allowed THEN <<Access("complete", Head(events).p)>> ELSE <<>>)
         \o LoopAccesses(Tail(events))

\* A dispatch runs without interruption between two suspension points: the
\* embedding (asyncio.to_thread), a provider's upstream call, and the wait
\* for a Provider._lock that is held.

Attempt_unlocked(d, tk, k, brs, locks) ==
    LET r == attempt_loop(providers, brs, tk.seq, k, now)
        tr == tk.trace \o r.events
    IN  /\ breakers' = r.breakers
        /\ IF r.at = 0
           THEN /\ plock' = locks
                /\ tasks' = [tasks EXCEPT ![d] =
                      [tk EXCEPT !.pc = "done", !.trace = tr,
                                 !.log = @ \o LoopAccesses(r.events),
                                 !.outcome = [kind |-> "NoAvailableProviderError", via |-> "",
                                              result |-> NoResult,
                                              msg |-> Some(exhausted_message(tk.last_error))]]]
           ELSE /\ plock' = [locks EXCEPT ![tk.seq[r.at]] = d]
                /\ tasks' = [tasks EXCEPT ![d] =
                      [tk EXCEPT !.pc = "calling", !.trace = tr, !.i = r.at,
                                 !.log = @ \o LoopAccesses(r.events)]]

\* the attempt loop from candidate k on, with the breakers and provider
\* locks as they are at that point of the step
Attempt(d, tk, k, brs, locks) ==
    LET r == attempt_loop(providers, brs, tk.seq, k, now)
        tr == tk.trace \o r.events
    IN  /\ breakers' = r.breakers
        /\ IF r.at = 0
           THEN /\ plock' = locks
                /\ tasks' = [tasks EXCEPT ![d] =
                      [tk EXCEPT !.pc = "done", !.trace = tr,
                                 !.log = @ \o LoopAccesses(r.events),
                                 !.outcome = [kind |-> "NoAvailableProviderError", via |-> "",
                                              result |-> NoResult,
                                              msg |-> Some(exhausted_message(tk.last_error))]]]
           ELSE IF locks[tk.seq[r.at]] = 0
           THEN /\ plock' = [locks EXCEPT ![tk.seq[r.at]] = d]
                /\ tasks' = [tasks EXCEPT ![d] =
                      [tk EXCEPT !.pc = "calling", !.trace = tr, !.i = r.at,
                                 !.log = @ \o LoopAccesses(r.events)]]
           ELSE /\ plock' = locks
                /\ tasks' = [tasks EXCEPT ![d] =
                      [tk EXCEPT !.pc = "wait_lock", !.trace = tr, !.i = r.at,
                                 !.log = @ \o LoopAccesses(r.events)]]

\* candidate selection, then the loop from the first candidate
Dispatch(d, tk) ==
    Attempt(d, [tk EXCEPT !.seq = provider_sequence(providers, tk.payload.model)],
            1, breakers, plock)

\* position in Router._providers of the entry called name (0: none)
EntryNamed(name) ==
    IF \E k \in DOMAIN providers : providers[k].name = name
    THEN CHOOSE k \in DOMAIN providers : providers[k].name = name
    ELSE 0

ReturnCached_recording(d, tk, cached_result) ==
    /\ tasks' = [tasks EXCEPT ![d] =
          [tk EXCEPT !.pc = "done",
                     !.outcome = [kind |-> "result", via |-> "exact",
                                  result |-> cached_result, msg |-> None]]]
    /\ breakers' = [breakers EXCEPT ![EntryNamed(cached_result.provider_name)] =
                        record_success(@)]
    /\ UNCHANGED plock

\* "if cached_result is not None: return cached_result"
ReturnCached(d, tk, cached_result) ==
    /\ tasks' = [tasks EXCEPT ![d] =
          [tk EXCEPT !.pc = "done",
                     !.outcome = [kind |-> "result", via |-> "exact",
                                  result |-> cached_result, msg |-> None]]]
    /\ UNCHANGED <<breakers, plock>>

SemanticLocals_threshold_gating_add(cfg, semantic_enabled, semantic_threshold) ==
    LET semantic_active == IF semantic_enabled # None THEN semantic_enabled[1]
                           ELSE cfg.semantic_enabled
        threshold == IF semantic_threshold # None THEN semantic_threshold[1]
                     ELSE cfg.threshold_default
        use_semantic == semantic_active /\ cfg.semantic_enabled /\ threshold > 0
    IN  [use_semantic |-> use_semantic,
         threshold |-> IF use_semantic THEN threshold ELSE 0]

\* the locals chat_completion derives from its keyword arguments:
\* use_semantic is "semantic_active and self._semantic_cache is not None",
\* threshold is kept only when the lookup it guards takes place
SemanticLocals(cfg, semantic_enabled, semantic_threshold) ==
    LET semantic_active == IF semantic_enabled # None THEN semantic_enabled[1]
                           ELSE cfg.semantic_enabled
        threshold == IF semantic_threshold # None THEN semantic_threshold[1]
                     ELSE cfg.threshold_default
        use_semantic == semantic_active /\ cfg.semantic_enabled
    IN  [use_semantic |-> use_semantic,
         threshold |-> IF use_semantic /\ threshold > 0 THEN threshold ELSE 0]

\* the call up to its first suspension point
Begin(d, req, locals) ==
    LET payload == ChatCompletionRequest(req)
        cache_key == _cache_key(payload)
        cached == _cache_get(settings, cache, cache_key, now)
        use_semantic == locals.use_semantic
        threshold == locals.threshold
        tk == [IdleTask EXCEPT !.payload = payload, !.cache_key = cache_key,
                               !.use_semantic = use_semantic,
                               !.log = <<Access("cache_get", 0)>>]
    IN  /\ d \in DOMAIN callers
        /\ req \in callers[d]
        /\ tasks[d].pc = "idle"
        /\ cache' = cached.cache
        /\ IF cached.result # None
           THEN ReturnCached(d, tk, cached.result[1])
           ELSE IF use_semantic /\ threshold > 0
           THEN /\ tasks' = [tasks EXCEPT ![d] =
                      [tk EXCEPT !.pc = "embed_get", !.threshold = threshold]]
                /\ UNCHANGED <<breakers, plock>>
           ELSE Dispatch(d, tk)
        /\ UNCHANGED <<providers, embedVars, objectVars, now, settings, callers, entries, histVars>>

EmbedGetDone_caching(d) ==
    LET tk == [tasks[d] EXCEPT !.log = Append(@, Access("semantic_get", 0))]
        semantic_data == semantic_get(entries, _embed(_serialize_payload(tk.payload)),
                                      tk.threshold)
        found == [semantic_data[1] EXCEPT !.tool_calls = deserialize_tool_calls(@)]
    IN  /\ tk.pc = "embed_get"
        /\ IF semantic_data # None
           THEN /\ tasks' = [tasks EXCEPT ![d] =
                      [tk EXCEPT !.pc = "done",
                                 !.outcome = [kind |-> "result", via |-> "semantic",
                                              result |-> found, msg |-> None]]]
                /\ cache' = _cache_set(settings, cache, tk.cache_key, found, now)
                /\ UNCHANGED <<breakers, plock>>
           ELSE /\ Dispatch(d, [tk EXCEPT !.threshold = 0])
                /\ UNCHANGED cache
        /\ UNCHANGED <<providers, embedVars, objectVars, now, settings, callers, entries, histVars>>

\* SemanticCache.get resumes with the query embedding
EmbedGetDone(d) ==
    LET tk == [tasks[d] EXCEPT !.log = Append(@, Access("semantic_get", 0))]
        semantic_data == semantic_get(entries, _embed(_serialize_payload(tk.payload)),
                                      tk.threshold)
    IN  /\ tk.pc = "embed_get"
        /\ IF semantic_data # None
           THEN /\ tasks' = [tasks EXCEPT ![d] =
                      [tk EXCEPT !.pc = "done",
                                 !.outcome = [kind |-> "result", via |-> "semantic",
                                              result |-> [semantic_data[1] EXCEPT !.tool_calls =
                                                            deserialize_tool_calls(@)],
                                              msg |-> None]]]
                /\ UNCHANGED <<breakers, plock>>
           ELSE Dispatch(d, [tk EXCEPT !.threshold = 0])
        /\ UNCHANGED <<providers, embedVars, objectVars, now, settings, callers, cache, entries, histVars>>

\* the embedding raises (model load or encode fails) inside SemanticCache.get
EmbedGetFails(d) ==
    /\ tasks[d].pc = "embed_get"
    /\ tasks' = [tasks EXCEPT ![d] =
          [@ EXCEPT !.pc = "done",
                    !.outcome = [kind |-> "error", via |-> "", result |-> NoResult,
                                 msg |-> Some(ErrorMessage("", "embedding failed"))]]]
    /\ UNCHANGED <<providers, embedVars, objectVars, breakers, now, settings, callers, cache, entries, plock, histVars>>

\* Provider.complete obtains the Provider._lock it was waiting for
AcquireLock(d) ==
    /\ tasks[d].pc = "wait_lock"
    /\ plock[tasks[d].seq[tasks[d].i]] = 0
    /\ plock' = [plock EXCEPT ![tasks[d].seq[tasks[d].i]] = d]
    /\ tasks' = [tasks EXCEPT ![d] = [@ EXCEPT !.pc = "calling"]]
    /\ UNCHANGED <<providers, embedVars, objectVars, breakers, now, settings, callers, cache, entries, histVars>>

Handle_retrying(d, kind) ==
    LET tk == tasks[d]
        e == tk.seq[tk.i]
        msg == ErrorMessage(providers[e].name, kind)
        n == Len(tk.trace)
        tk2 == [tk EXCEPT !.last_error = Some(msg),
                          !.payload.tool_calls = <<>>,
                          !.log = Append(@, Access("record_failure", e)),
                          !.trace[n] = [@ EXCEPT !.outcome = "failed", !.err = Some(msg)]]
    IN  Attempt(d, tk2, tk.i,
                [breakers EXCEPT ![e] = record_failure(breakers[e], providers[e], now)],
                [plock EXCEPT ![e] = 0])

Handle_unrecorded(d, kind) ==
    LET tk == tasks[d]
        e == tk.seq[tk.i]
        msg == ErrorMessage(providers[e].name, kind)
        n == Len(tk.trace)
        tk2 == [tk EXCEPT !.last_error = Some(msg),
                          !.payload.tool_calls = <<>>,
                          !.trace[n] = [@ EXCEPT !.outcome = "failed", !.err = Some(msg)]]
    IN  Attempt(d, tk2, tk.i + 1, breakers, [plock EXCEPT ![e] = 0])

Handle_keeping_lock(d, kind) ==
    LET tk == tasks[d]
        e == tk.seq[tk.i]
        msg == ErrorMessage(providers[e].name, kind)
        n == Len(tk.trace)
        tk2 == [tk EXCEPT !.last_error = Some(msg),
                          !.payload.tool_calls = <<>>,
                          !.log = Append(@, Access("record_failure", e)),
                          !.trace[n] = [@ EXCEPT !.outcome = "failed", !.err = Some(msg)]]
    IN  Attempt(d, tk2, tk.i + 1,
                [breakers EXCEPT ![e] = record_failure(breakers[e], providers[e], now)],
                plock)

\* an except clause of the loop: last_error, record_failure, continue
Handle(d, kind) ==
    LET tk == tasks[d]
        e == tk.seq[tk.i]
        msg == ErrorMessage(providers[e].name, kind)
        n == Len(tk.trace)
        tk2 == [tk EXCEPT !.last_error = Some(msg),
                          !.payload.tool_calls = <<>>,
                          !.log = Append(@, Access("record_failure", e)),
                          !.trace[n] = [@ EXCEPT !.outcome = "failed", !.err = Some(msg)]]
    IN  Attempt(d, tk2, tk.i + 1,
                [breakers EXCEPT ![e] = record_failure(breakers[e], providers[e], now)],
                [plock EXCEPT ![e] = 0])

\* the exception leaves chat_completion; the provider lock is released
Propagate(d, kind) ==
    LET tk == tasks[d]
        e == tk.seq[tk.i]
    IN  /\ plock' = [plock EXCEPT ![e] = 0]
        /\ tasks' = [tasks EXCEPT ![d] =
              [tk EXCEPT !.pc = "done",
                         !.outcome = [kind |-> "error", via |-> "", result |-> NoResult,
                                      msg |-> Some(ErrorMessage(providers[e].name, kind))]]]
        /\ UNCHANGED breakers

ProviderFails_provider_error_only(d, kind) ==
    /\ tasks[d].pc = "calling"
    /\ kind \in Failures(providers[tasks[d].seq[tasks[d].i]].name)
    /\ breakers[tasks[d].seq[tasks[d].i]].failure_count < MaxFailures
    /\ IF kind = "ProviderError" THEN Handle(d, kind) ELSE Propagate(d, kind)
    /\ UNCHANGED <<providers, embedVars, objectVars, now, settings, callers, cache, entries, histVars>>

\* complete() raises: "except ProviderError" or "except Exception"
ProviderFails(d, kind) ==
    /\ tasks[d].pc = "calling"
    /\ kind \in Failures(providers[tasks[d].seq[tasks[d].i]].name)
    /\ breakers[tasks[d].seq[tasks[d].i]].failure_count < MaxFailures
    /\ Handle(d, kind)
    /\ UNCHANGED <<providers, embedVars, objectVars, now, settings, callers, cache, entries, histVars>>

\* complete() returns: record_success, the result, the exact-cache write
ProviderSucceeds(d, response) ==
    LET tk == tasks[d]
        e == tk.seq[tk.i]
        provider_result == [provider_name |-> providers[e].name,
                            content |-> response.content,
                            tool_calls |-> response.tool_calls]
        n == Len(tk.trace)
        tk2 == [tk EXCEPT !.payload.tool_calls = <<>>,
                          !.result = provider_result,
                          !.log = @ \o <<Access("record_success", e),
                                         Access("cache_set", 0)>>,
                          !.trace[n] = [@ EXCEPT !.outcome = "ok"]]
    IN  /\ tk.pc = "calling"
        /\ response \in Responses(providers[e].name)
        /\ plock' = [plock EXCEPT ![e] = 0]
        /\ breakers' = [breakers EXCEPT ![e] = record_success(breakers[e])]
        /\ cache' = _cache_set(settings, cache, tk.cache_key, provider_result, now)
        /\ written' = Remember(settings, written, tk.cache_key, provider_result, now)
        /\ IF tk.use_semantic
           THEN tasks' = [tasks EXCEPT ![d] = [tk2 EXCEPT !.pc = "embed_add"]]
           ELSE tasks' = [tasks EXCEPT ![d] =
                    [tk2 EXCEPT !.pc = "done",
                                !.outcome = [kind |-> "result", via |-> "provider",
                                             result |-> provider_result, msg |-> None]]]
        /\ UNCHANGED <<providers, embedVars, objectVars, now, settings, callers, entries,
                       consec, lastFailAt, added, lastOp>>

\* SemanticCache.add resumes with the embedding; the result is returned
EmbedAddDone(d) ==
    LET tk == tasks[d]
        dict == [tk.result EXCEPT !.tool_calls = serialize_tool_calls(@)]
    IN  /\ tk.pc = "embed_add"
        /\ entries' = semantic_add(settings, entries,
                                   _embed(_serialize_payload(tk.payload)), dict)
        /\ tasks' = [tasks EXCEPT ![d] =
              [tk EXCEPT !.pc = "done",
                         !.log = Append(@, Access("semantic_add", 0)),
                         !.outcome = [kind |-> "result", via |-> "provider",
                                      result |-> tk.result, msg |-> None]]]
        /\ UNCHANGED <<providers, embedVars, objectVars, breakers, now, settings, callers, cache, plock, histVars>>

\* the embedding raises inside SemanticCache.add
EmbedAddFails(d) ==
    /\ tasks[d].pc = "embed_add"
    /\ tasks' = [tasks EXCEPT ![d] =
          [@ EXCEPT !.pc = "done",
                    !.outcome = [kind |-> "error", via |-> "", result |-> NoResult,
                                 msg |-> Some(ErrorMessage("", "embedding failed"))]]]
    /\ UNCHANGED <<providers, embedVars, objectVars, breakers, now, settings, callers, cache, entries, plock, histVars>>

\* the caller has the outcome; the task may start another dispatch
Return(d) ==
    /\ tasks[d].pc = "done"
    /\ tasks' = [tasks EXCEPT ![d] = IdleTask]
    /\ UNCHANGED <<providers, embedVars, objectVars, breakers, now, settings, callers, cache, entries, plock, histVars>>

Next ==
    \/ Tick
    \/ \E d \in Tasks, req \in Requests :
          \E locals \in {SemanticLocals(settings, en, th) :
                            en \in SemanticEnabledChoices,
                            th \in SemanticThresholdChoices} : Begin(d, req, locals)
    \/ \E d \in Tasks : EmbedGetDone(d)
    \/ \E d \in Tasks : EmbedGetFails(d)
    \/ \E d \in Tasks : AcquireLock(d)
    \/ \E d \in Tasks, kind \in UNION {Failures(n) : n \in {"A", "B", "C"}} :
          ProviderFails(d, kind)
    \/ \E d \in Tasks, response \in UNION {Responses(n) : n \in {"A", "B", "C"}} :
          ProviderSucceeds(d, response)
    \/ \E d \in Tasks : EmbedAddDone(d)
    \/ \E d \in Tasks : EmbedAddFails(d)
    \/ \E d \in Tasks : Return(d)

Spec == Init /\ [][Next]_vars

(* ------ identical requests to a Router with two providers and caches -- *)
ExactConfig ==
    [providers |-> <<CfgA(0), CfgB(10)>>, settings |-> BothCaches,
     callers |-> [d \in {1, 2} |-> {req \in Requests : req.model = S_Lx}]]

InitExact == Constructed(ExactConfig)

\* the callers pass no keyword argument: every dispatch uses the Router's
\* semantic settings
NextExact ==
    \/ Tick
    \/ \E d \in Tasks, req \in Requests :
          Begin(d, req, SemanticLocals(settings, None, None))
    \/ \E d \in Tasks : EmbedGetDone(d)
    \/ \E d \in Tasks : EmbedGetFails(d)
    \/ \E d \in Tasks : AcquireLock(d)
    \/ \E d \in Tasks, kind \in UNION {Failures(n) : n \in {"A", "B", "C"}} :
          ProviderFails(d, kind)
    \/ \E d \in Tasks, response \in UNION {Responses(n) : n \in {"A", "B", "C"}} :
          ProviderSucceeds(d, response)
    \/ \E d \in Tasks : EmbedAddDone(d)
    \/ \E d \in Tasks : EmbedAddFails(d)
    \/ \E d \in Tasks : Return(d)

SpecExact == InitExact /\ [][NextExact]_vars

(* ------------- a Router whose exact cache is switched off ------------- *)
\* LLMROUTER_CACHE_TTL is 0 (the default) or negative; the semantic cache
\* is enabled, two providers, two callers that send the same request
NoTtlChoices == {0, -1}

NoTtlConfig(ttl) ==
    [providers |-> <<CfgA(0), CfgB(10)>>,
     settings |-> [BothCaches EXCEPT !.cache_ttl = ttl],
     callers |-> [d \in {1, 2} |-> {req \in Requests : req.model = S_Lx}]]

InitNoTtl == \E ttl \in NoTtlChoices : Constructed(NoTtlConfig(ttl))

SpecNoTtl == InitNoTtl /\ [][NextExact]_vars

(* ---------- dispatches under the scheduling of the event loop --------- *)
\* two callers of a Router without caches, so that every dispatch reaches
\* the providers
LockConfig ==
    [providers |-> <<CfgA(0), CfgB(10)>>, settings |-> NoCaches,
     callers |-> [d \in {1, 2} |-> Named]]

InitLock == Constructed(LockConfig)

\* the steps of the dispatches of such a Router while the clock stands
\* still
NextLock ==
    \/ \E d \in Tasks, req \in Requests :
          \E locals \in {SemanticLocals(settings, en, th) :
                            en \in SemanticEnabledChoices,
                            th \in SemanticThresholdChoices} : Begin(d, req, locals)
    \/ \E d \in Tasks : AcquireLock(d)
    \/ \E d \in Tasks, kind \in UNION {Failures(n) : n \in {"A", "B", "C"}} :
          ProviderFails(d, kind)
    \/ \E d \in Tasks, response \in UNION {Responses(n) : n \in {"A", "B", "C"}} :
          ProviderSucceeds(d, response)
    \/ \E d \in Tasks : Return(d)

\* a provider call in flight returns (with a result or an exception)
ProviderReturns(d) ==
    \/ \E kind \in UNION {Failures(n) : n \in {"A", "B", "C"}} : ProviderFails(d, kind)
    \/ \E response \in UNION {Responses(n) : n \in {"A", "B", "C"}} :
          ProviderSucceeds(d, response)

\* asyncio.Lock wakes its waiters in the order they arrived and lets no
\* newcomer overtake a waiter: a task that waits for a lock which is
\* released again and again obtains it
Scheduling ==
    \A d \in Tasks : SF_vars(AcquireLock(d)) /\ WF_vars(ProviderReturns(d))

SpecLock == InitLock /\ [][NextLock]_vars /\ Scheduling

(* ------------- a provider that recovers while requests arrive --------- *)
\* a Router without caches whose first provider has a threshold and a
\* window of 1, or of 2; one caller sends request after request while the
\* clock advances
RecoveryConfigs ==
    { [providers |-> <<CfgA(0), CfgB(10)>>, settings |-> NoCaches,
       callers |-> [d \in {1} |-> Named]],
      [providers |-> <<CfgB(0), CfgA(10)>>, settings |-> NoCaches,
       callers |-> [d \in {1} |-> Named]] }

InitRecovery == \E config \in RecoveryConfigs : Constructed(config)

\* caller d sends a request whenever it has none in progress
Arrives(d) ==
    \E req \in Requests : Begin(d, req, SemanticLocals(settings, None, None))

NextRecovery ==
    \/ Tick
    \/ \E d \in Tasks : Arrives(d)
    \/ \E d \in Tasks, kind \in UNION {Failures(n) : n \in {"A", "B", "C"}} :
          ProviderFails(d, kind)
    \/ \E d \in Tasks, response \in UNION {Responses(n) : n \in {"A", "B", "C"}} :
          ProviderSucceeds(d, response)
    \/ \E d \in Tasks : Return(d)

\* requests keep arriving: weak fairness of Arrives(1), whose enabling
\* condition is that the caller has no request in progress
KeepArriving ==
    []<>(tasks[1].pc # "idle") \/ []<><<Arrives(1)>>_vars

\* requests keep arriving, the caller takes every result, and every
\* provider call returns
Arrivals ==
    KeepArriving /\ WF_vars(Return(1)) /\ WF_vars(ProviderReturns(1))

SpecRecovery == InitRecovery /\ [][NextRecovery]_vars /\ Arrivals

(* ------------- the breaker driven by arbitrary callers ---------------- *)
\* breakers share no state: a behaviour drives the one breaker its first
\* operation picked, in any order of operations and clock ticks
Driven(i) == lastOp.p \in {0, i}

BreakerAllow(i) ==
    LET r == allow_request(breakers[i], providers[i], now)
    IN  /\ Driven(i)
        /\ breakers' = [breakers EXCEPT ![i] = r.breaker]
        /\ lastOp' = [p |-> i, op |-> "allow", res |-> r.result, at |-> now,
                      prev |-> breakers[i],
                      before |-> [op |-> lastOp.op, at |-> lastOp.at,
                                  prev |-> lastOp.prev]]
        /\ UNCHANGED <<providers, embedVars, objectVars, now, routerVars, consec, lastFailAt, written, added>>

BreakerSuccess(i) ==
    /\ Driven(i)
    /\ breakers' = [breakers EXCEPT ![i] = record_success(breakers[i])]
    /\ consec' = [consec EXCEPT ![i] = 0]
    /\ lastOp' = [p |-> i, op |-> "success", res |-> FALSE, at |-> now,
                  prev |-> breakers[i]]
    /\ UNCHANGED <<providers, embedVars, objectVars, now, routerVars, lastFailAt, written, added>>

BreakerFailure(i) ==
    /\ Driven(i)
    /\ breakers[i].failure_count < MaxBreakerFailures
    /\ breakers' = [breakers EXCEPT ![i] = record_failure(breakers[i], providers[i], now)]
    /\ consec' = [consec EXCEPT ![i] = consec[i] + 1]
    /\ lastFailAt' = [lastFailAt EXCEPT ![i] = now]
    /\ lastOp' = [p |-> i, op |-> "failure", res |-> FALSE, at |-> now,
                  prev |-> breakers[i]]
    /\ UNCHANGED <<providers, embedVars, objectVars, now, routerVars, written, added>>

NextBreaker ==
    \/ Tick
    \/ \E i \in DOMAIN breakers : BreakerAllow(i)
    \/ \E i \in DOMAIN breakers : BreakerSuccess(i)
    \/ \E i \in DOMAIN breakers : BreakerFailure(i)

SpecBreaker == InitBreaker /\ [][NextBreaker]_vars

(* ------------- the exact cache driven by arbitrary callers ------------ *)
\* the Router's exact cache with a TTL of 1 or 2, under any order of
\* _cache_get and _cache_set calls and clock ticks
TtlChoices == {1, 2}

CacheConfig(ttl) ==
    [providers |-> <<CfgA(0)>>, settings |-> [NoCaches EXCEPT !.cache_ttl = ttl],
     callers |-> <<>>]

InitCache == \E ttl \in TtlChoices : Constructed(CacheConfig(ttl))

\* the keys and results the callers pass
CacheKeys == {_cache_key(ChatCompletionRequest(req)) : req \in Named}
CacheResults ==
    UNION {{[provider_name |-> n, content |-> r.content, tool_calls |-> r.tool_calls] :
               r \in Responses(n)} : n \in {"A", "B", "C"}}

CacheGet(key) ==
    LET r == _cache_get(settings, cache, key, now)
    IN  /\ cache' = r.cache
        /\ lastOp' = [p |-> 0, op |-> "get", key |-> key, res |-> r.result,
                      at |-> now, prev |-> cache]
        /\ UNCHANGED <<providers, embedVars, objectVars, breakers, now, settings, entries, plock, tasks,
                       callers, consec, lastFailAt, written, added>>

CacheSet(key, result) ==
    /\ cache' = _cache_set(settings, cache, key, result, now)
    /\ written' = Remember(settings, written, key, result, now)
    /\ lastOp' = [p |-> 0, op |-> "set", key |-> key, res |-> None,
                  at |-> now, prev |-> cache]
    /\ UNCHANGED <<providers, embedVars, objectVars, breakers, now, settings, entries, plock, tasks,
                   callers, consec, lastFailAt, added>>

NextCache ==
    \/ Tick
    \/ \E key \in CacheKeys : CacheGet(key)
    \/ \E key \in CacheKeys, result \in CacheResults : CacheSet(key, result)

SpecCache == InitCache /\ [][NextCache]_vars

(* ----------- the semantic cache driven by arbitrary callers ----------- *)
\* a behaviour makes at most MaxAdds calls of add
MaxAdds == 3

\* LLMROUTER_SEMANTIC_CACHE_MAX_ENTRIES
MaxEntriesChoices == {1, 2}

SemanticConfig(max_entries) ==
    [providers |-> <<CfgA(0)>>,
     settings |-> [BothCaches EXCEPT !.max_entries = max_entries],
     callers |-> <<>>]

InitSemantic == \E max_entries \in MaxEntriesChoices : Constructed(SemanticConfig(max_entries))

\* the arguments the callers pass: payloads, thresholds (in hundredths) and
\* result dicts
SemanticPayloads ==
    {ChatCompletionRequest(req) : req \in Requests}
Thresholds == {0, 80, 85, 100}
SemanticResults ==
    {[r EXCEPT !.tool_calls = serialize_tool_calls(@)] : r \in CacheResults}

\* SemanticCache.get(payload, threshold)
SemanticGet(payload, threshold) ==
    LET r == semantic_get(entries, _embed(_serialize_payload(payload)), threshold)
    IN  /\ lastOp' = [p |-> 0, op |-> "semantic_get", payload |-> payload,
                      threshold |-> threshold, res |-> r, at |-> now, prev |-> entries]
        /\ UNCHANGED <<providers, embedVars, objectVars, breakers, now, settings, cache, entries, plock, tasks,
                       callers, consec, lastFailAt, written, added>>

\* SemanticCache.add(payload, result)
SemanticAdd(payload, result) ==
    /\ Len(added) < MaxAdds
    /\ entries' = semantic_add(settings, entries, _embed(_serialize_payload(payload)), result)
    /\ added' = Append(added, [payload |-> payload, result |-> result])
    /\ lastOp' = [p |-> 0, op |-> "semantic_add", payload |-> payload,
                  threshold |-> 0, res |-> None, at |-> now, prev |-> entries]
    /\ UNCHANGED <<providers, embedVars, objectVars, breakers, now, settings, cache, plock, tasks,
                   callers, consec, lastFailAt, written>>

NextSemantic ==
    \/ \E payload \in SemanticPayloads, threshold \in Thresholds :
          SemanticGet(payload, threshold)
    \/ \E payload \in SemanticPayloads, result \in SemanticResults :
          SemanticAdd(payload, result)

SpecSemantic == InitSemantic /\ [][NextSemantic]_vars

(* ------------- the embedding model of the semantic cache ------------- *)
InitEmbed == Constructed(SemanticConfig(1))

\* the results the callers add
EmbedResults == {r \in SemanticResults : r.provider_name = "A"}

\* get(payload, threshold) or add(payload, result) up to the first
\* suspension point of _embed: _ensure_model awaits the construction of
\* the model when _model is None, and _embed awaits encode otherwise
EmbedBegins(c, call, payload) ==
    /\ tasks[c].pc = "idle"
    /\ tasks' = [tasks EXCEPT ![c] =
          [pc |-> IF _model = None THEN "load_model" ELSE "encode",
           call |-> call, payload |-> payload, model |-> _model]]
    /\ UNCHANGED <<providers, objectVars, embedVars, breakers, now, settings, cache,
                   entries, plock, callers, histVars>>

\* asyncio.to_thread(SentenceTransformer, ...) returns: the assignment to
\* self._model, then the await of encode
ModelLoaded(c) ==
    /\ tasks[c].pc = "load_model"
    /\ loads' = loads + 1
    /\ _model' = Some(loads + 1)
    /\ tasks' = [tasks EXCEPT ![c] = [@ EXCEPT !.pc = "encode", !.model = Some(loads + 1)]]
    /\ UNCHANGED <<providers, objectVars, breakers, now, settings, cache, entries,
                   plock, callers, histVars>>

\* the construction of the model raises
ModelFails(c) ==
    /\ tasks[c].pc = "load_model"
    /\ tasks' = [tasks EXCEPT ![c] = IdleTask]
    /\ lastOp' = [p |-> 0, op |-> "model_failed", payload |-> tasks[c].payload,
                  threshold |-> 0, res |-> None, at |-> now, prev |-> entries]
    /\ UNCHANGED <<providers, objectVars, embedVars, breakers, now, settings, cache,
                   entries, plock, callers, consec, lastFailAt, written, added>>

\* encode returns: get scans the entries, add appends and evicts
Encoded(c) ==
    LET tk == tasks[c]
        embedding == _embed(_serialize_payload(tk.payload))
    IN  /\ tk.pc = "encode"
        /\ tasks' = [tasks EXCEPT ![c] = IdleTask]
        /\ IF tk.call = "get"
           THEN /\ lastOp' = [p |-> 0, op |-> "semantic_get", payload |-> tk.payload,
                              threshold |-> settings.threshold_default,
                              res |-> semantic_get(entries, embedding,
                                                   settings.threshold_default),
                              at |-> now, prev |-> entries]
                /\ UNCHANGED entries
           ELSE /\ \E result \in EmbedResults :
                      entries' = semantic_add(settings, entries, embedding, result)
                /\ UNCHANGED lastOp
        /\ UNCHANGED <<providers, objectVars, embedVars, breakers, now, settings, cache,
                       plock, callers, consec, lastFailAt, written, added>>

NextEmbed ==
    \/ \E c \in Tasks, call \in {"get", "add"}, payload \in SemanticPayloads :
          EmbedBegins(c, call, payload)
    \/ \E c \in Tasks : ModelLoaded(c)
    \/ \E c \in Tasks : ModelFails(c)
    \/ \E c \in Tasks : Encoded(c)

SpecEmbed == InitEmbed /\ [][NextEmbed]_vars

(* ------------- the capacity of the semantic cache --------------------- *)
\* LLMROUTER_SEMANTIC_CACHE_MAX_ENTRIES of 0, 1 or 2, and callers whose
\* get and add calls overlap
CapacityChoices == {0, 1, 2}

InitCapacity == \E max_entries \in CapacityChoices : Constructed(SemanticConfig(max_entries))

SpecCapacity == InitCapacity /\ [][NextEmbed]_vars

(* ------------------- the exact-cache key of a request ----------------- *)
\* the request bodies differ from the plainest one in at most
\* MaxFieldChanges fields
MaxFieldChanges == 1

\* a field left out of a request body
Absent == <<0, 0>>

\* the plainest body, and the values a sender may give each field
PlainBody ==
    [model |-> S_Lx, messages |-> "q1", temperature |-> Absent, top_p |-> Absent,
     max_tokens |-> Absent, tools |-> Absent, tool_choice |-> Absent]
SentBodies ==
    {b \in [model : {S_Lx, S_zz}, messages : {"q1", "q2"},
            temperature : {Absent, Some(10), Some(7)}, top_p : {Absent, Some(5)},
            max_tokens : {Absent, None, Some(16)}, tools : {Absent, Some("tool1")},
            tool_choice : {Absent, Some("choice1")}] :
        Cardinality({f \in DOMAIN PlainBody : b[f] # PlainBody[f]}) <= MaxFieldChanges}

\* the text of a body: its fields in sorted or in reverse order
Reversed(seq) == [k \in 1..Len(seq) |-> seq[Len(seq) + 1 - k]]
TextOf(b, reversed) ==
    LET present == SelectSeq(SortedKeys, LAMBDA f : f \notin OptionalFields \/ b[f] # Absent)
        items == [k \in 1..Len(present) |-> <<present[k], b[present[k]]>>]
    IN  IF reversed THEN Reversed(items) ELSE items
Texts == {TextOf(b, reversed) : b \in SentBodies, reversed \in BOOLEAN}

\* json.loads: the body a text denotes
json_loads(text) ==
    [f \in {text[k][1] : k \in DOMAIN text} |->
        text[CHOOSE k \in DOMAIN text : text[k][1] = f][2]]

InitKey == Constructed(BreakerConfig)

\* _cache_key(payload) for the request a sender's text parses to
CacheKey(text) ==
    LET payload == ChatCompletionRequest(json_loads(text))
        this == [text |-> text, payload |-> payload, key |-> _cache_key(payload)]
    IN  /\ lastOp' = [p |-> 0, op |-> "cache_key", text |-> text, payload |-> payload,
                      key |-> this.key, at |-> now,
                      before |-> IF lastOp.op = "cache_key"
                                 THEN [text |-> lastOp.text, payload |-> lastOp.payload,
                                       key |-> lastOp.key]
                                 ELSE this]
        /\ UNCHANGED <<providers, embedVars, objectVars, breakers, now, routerVars, consec,
                       lastFailAt, written, added>>

NextKey == \E text \in Texts : CacheKey(text)

SpecKey == InitKey /\ [][NextKey]_vars

(* ------------ the result objects the caches store and return --------- *)
\* a behaviour allocates at most MaxObjects tool-call lists, each of one
\* tool call
MaxObjects == 3

\* None as the value of a tool_calls attribute
NoRef == 0

\* the list at ref and the tool calls in it
Reach(h, ref) ==
    IF ref = NoRef THEN {} ELSE {ref} \cup {h[ref].items[k] : k \in 1..Len(h[ref].items)}

\* [tc.copy(deep=True) for tc in tool_calls] if tool_calls else None:
\* the heap after the copy, and the reference to the new list
copy_tool_calls(h, ref) ==
    IF ref = NoRef \/ h[ref].items = <<>> THEN [heap |-> h, ref |-> NoRef]
    ELSE LET items == h[ref].items
             n == Len(items)
             copies == [k \in 1..n |-> h[items[k]]]
             list == [kind |-> "list", items |-> [k \in 1..n |-> Len(h) + k]]
         IN  [heap |-> Append(h \o copies, list), ref |-> Len(h) + n + 1]

\* the configuration of the Router whose caches the callers use
ObjectConfig ==
    [providers |-> <<CfgA(0)>>, settings |-> BothCaches, callers |-> <<>>]

InitObjects == Constructed(ObjectConfig)

\* the request every call is about, and the threshold of every get
ObjectPayload == ChatCompletionRequest([model |-> S_Lx, messages |-> "q1"])
ObjectThreshold == 80

\* the result whose tool-call list is at ref
ResultAt(ref) == [provider_name |-> "A", content |-> "r1", tool_calls |-> ref]

\* a caller builds a tool-call list of one tool call
BuildResult(c) ==
    /\ Len(heap) + 2 <= 2 * MaxObjects
    /\ heap' = heap \o <<[kind |-> "tool_call", id |-> "t1"],
                         [kind |-> "list", items |-> <<Len(heap) + 1>>]>>
    /\ held' = [held EXCEPT ![c] = @ \cup {[ref |-> Len(heap) + 2, from |-> "built"]}]
    /\ UNCHANGED <<providers, embedVars, breakers, now, routerVars, histVars>>

\* _cache_set(key, result) with a result the caller holds
ObjectCacheSet(c, ref) ==
    /\ [ref |-> ref, from |-> "built"] \in held[c]
    /\ _ttl_enabled(settings)
    /\ Len(heap) + Cardinality(Reach(heap, ref)) <= 2 * MaxObjects
    /\ LET cached == copy_tool_calls(heap, ref)
           key == _cache_key(ObjectPayload)
       IN  /\ heap' = cached.heap
           /\ cache' = [k \in DOMAIN cache \cup {key} |->
                          IF k = key
                          THEN [result |-> ResultAt(cached.ref),
                                expires_at |-> now + settings.cache_ttl]
                          ELSE cache[k]]
    /\ UNCHANGED <<providers, embedVars, breakers, now, settings, entries, plock, tasks, callers,
                   histVars, held>>

\* _cache_get(key): a hit returns a ProviderResult built for the caller
ObjectCacheGet(c) ==
    LET key == _cache_key(ObjectPayload)
    IN  /\ _ttl_enabled(settings)
        /\ key \in DOMAIN cache
        /\ cache[key].expires_at >= now
        /\ Len(heap) + Cardinality(Reach(heap, cache[key].result.tool_calls)) <= 2 * MaxObjects
        /\ LET returned == copy_tool_calls(heap, cache[key].result.tool_calls)
           IN  /\ heap' = returned.heap
               /\ held' = [held EXCEPT ![c] =
                             @ \cup (IF returned.ref = NoRef THEN {}
                                     ELSE {[ref |-> returned.ref, from |-> "read"]})]
        /\ UNCHANGED <<providers, embedVars, breakers, now, routerVars, histVars>>

\* SemanticCache.add(payload, result) with a result dict the caller holds
ObjectSemanticAdd(c, ref) ==
    /\ [ref |-> ref, from |-> "built"] \in held[c]
    /\ entries' = semantic_add(settings, entries,
                               _embed(_serialize_payload(ObjectPayload)), ResultAt(ref))
    /\ UNCHANGED <<providers, embedVars, breakers, now, settings, cache, plock, tasks, callers,
                   histVars, objectVars>>

\* SemanticCache.get(payload, threshold): a hit returns a new dict whose
\* "tool_calls" is best_entry["tool_calls"]
ObjectSemanticGet(c) ==
    LET r == semantic_get(entries, _embed(_serialize_payload(ObjectPayload)), ObjectThreshold)
    IN  /\ r # None
        /\ r[1].tool_calls # NoRef
        /\ [ref |-> r[1].tool_calls, from |-> "read"] \notin held[c]
        /\ held' = [held EXCEPT ![c] = @ \cup {[ref |-> r[1].tool_calls, from |-> "read"]}]
        /\ UNCHANGED <<providers, embedVars, breakers, now, routerVars, histVars, heap>>

\* a caller changes a tool call of a list it holds
Mutate(c, ref) ==
    /\ \E h \in held[c] : h.ref = ref
    /\ heap[ref].items # <<>>
    /\ heap[heap[ref].items[1]].id # "changed"
    /\ heap' = [heap EXCEPT ![heap[ref].items[1]].id = "changed"]
    /\ UNCHANGED <<providers, embedVars, breakers, now, routerVars, histVars, held>>

NextObjects ==
    \/ \E c \in Tasks : BuildResult(c)
    \/ \E c \in Tasks, ref \in 1..2 * MaxObjects : ObjectCacheSet(c, ref)
    \/ \E c \in Tasks : ObjectCacheGet(c)
    \/ \E c \in Tasks, ref \in 1..2 * MaxObjects : ObjectSemanticAdd(c, ref)
    \/ \E c \in Tasks : ObjectSemanticGet(c)
    \/ \E c \in Tasks, ref \in 1..2 * MaxObjects : Mutate(c, ref)

SpecObjects == InitObjects /\ [][NextObjects]_vars

(* ------------------------------ claims -------------------------------- *)

\* C1: after N consecutive record_failure calls with no record_success in
\* between (N the failure threshold), allow_request returns false when
\* called with no time elapsed since the last failure, and it returns true
\* only when at least the recovery window has elapsed since that failure.
C1_DeniedUntilRecoveryWindow ==
    \A i \in DOMAIN breakers :
        (lastOp.p = i /\ lastOp.op = "allow"
            /\ consec[i] >= providers[i].failure_threshold)
        => /\ (lastOp.at = lastFailAt[i] => ~lastOp.res)
           /\ (lastOp.res =>
                 lastOp.at - lastFailAt[i] >= providers[i].recovery_time_seconds)

\* a breaker that opened on its third consecutive failure admits a request
\* again after the window
C1_Witness ==
    /\ lastOp.op = "allow" /\ lastOp.res /\ lastOp.prev.state = OPEN
    /\ lastOp.p \in DOMAIN breakers
    /\ providers[lastOp.p].failure_threshold = 3
    /\ consec[lastOp.p] >= 3

\* C2: record_success, whatever the state and history of the breaker it is
\* called on, leaves it Closed with failure count 0 and no last-failure
\* timestamp.
C2_SuccessHeals ==
    lastOp.op = "success"
    => breakers[lastOp.p] = [state |-> CLOSED, failure_count |-> 0, last_failure |-> NoTime]

\* record_success applied to an Open breaker with failures on record
C2_Witness ==
    /\ lastOp.op = "success"
    /\ lastOp.prev.state = OPEN
    /\ lastOp.prev.failure_count >= 2
    /\ breakers[lastOp.p].state = CLOSED

\* C3: a record_failure on a HalfOpen breaker moves it to Open (never to
\* Closed), whatever the threshold.
C3_HalfOpenFailureReopens ==
    (lastOp.op = "failure" /\ lastOp.prev.state = HALF_OPEN)
    => breakers[lastOp.p].state = OPEN

\* a trial failed on a HalfOpen breaker whose threshold is above 1
C3_Witness ==
    /\ lastOp.op = "failure"
    /\ lastOp.prev.state = HALF_OPEN
    /\ providers[lastOp.p].failure_threshold >= 2
    /\ breakers[lastOp.p].state = OPEN

(* ---- the dispatch claims, in terms of the record a dispatch keeps ---- *)
\* a dispatch that got past both caches and selected its candidates
InLoop(d) == tasks[d].seq # <<>>

\* the j-th candidate comes before the k-th in priority, ties in
\* configuration order
Before(a, b) ==
    \/ providers[a].priority < providers[b].priority
    \/ /\ providers[a].priority = providers[b].priority
       /\ CfgPos(providers[a].name) < CfgPos(providers[b].name)

FailureStep(d) ==
    /\ tasks[d].pc = "calling"
    /\ tasks'[d] # tasks[d]
    /\ tasks'[d].result = NoResult

C6_CalledOnlyWhenAdmitted ==
    \A d \in Tasks :
        /\ \A j \in 1..Len(tasks[d].trace) :
              tasks[d].trace[j].allowed <=> tasks[d].trace[j].outcome # "skipped"
        /\ tasks[d].pc \in {"calling", "wait_lock"}
           => /\ Len(tasks[d].trace) = tasks[d].i
              /\ tasks[d].trace[tasks[d].i].allowed
              /\ tasks[d].trace[tasks[d].i].p = tasks[d].seq[tasks[d].i]
        /\ \A i \in DOMAIN plock :
              plock[i] = d => tasks[d].pc = "calling" /\ tasks[d].seq[tasks[d].i] = i

\* a provider is being called after an earlier candidate was denied
C6_Witness ==
    \E d \in Tasks :
        /\ tasks[d].pc = "calling"
        /\ tasks[d].i >= 2
        /\ ~tasks[d].trace[1].allowed
        /\ breakers[tasks[d].seq[1]].state = OPEN

\* a step in which dispatch d is answered from the exact cache
ExactHitStep(d) ==
    /\ tasks[d].pc = "idle"
    /\ tasks'[d].pc = "done"
    /\ tasks'[d].outcome.via = "exact"

\* C7: a dispatch that hits the exact cache returns the cached result, does
\* not invoke any provider and leaves every breaker's state, failure count
\* and last-failure timestamp as they were.
C7_ExactHitTouchesNothing ==
    [][ \A d \in Tasks :
          ExactHitStep(d) =>
            /\ breakers' = breakers
            /\ plock' = plock
            /\ tasks'[d].trace = <<>> /\ tasks'[d].seq = <<>>
            /\ \A o \in Tasks \ {d} : tasks'[o] = tasks[o]
            /\ tasks'[d].cache_key \in DOMAIN cache
            /\ tasks'[d].outcome.result = cache[tasks'[d].cache_key].result
      ]_vars

\* an exact-cache hit while the breaker of the provider that produced the
\* cached result is Open
C7_Witness ==
    \E d \in Tasks :
        /\ tasks[d].pc = "done" /\ tasks[d].outcome.via = "exact"
        /\ breakers[EntryNamed(tasks[d].outcome.result.provider_name)].state = OPEN

\* the error message of the last failed attempt of a trace, if any
LastFailure(trace) ==
    LET failed == {j \in 1..Len(trace) : trace[j].outcome = "failed"}
    IN  IF failed = {} THEN None
        ELSE trace[CHOOSE j \in failed : \A k \in failed : k <= j].err

C9_OnlyResultOrNoAvailable ==
    \A d \in Tasks :
        tasks[d].pc = "done"
        => tasks[d].outcome.kind \in {"result", "NoAvailableProviderError"}

\* the entries of Router._providers that the requested model matches (a
\* request that names no model is matched against no entry)
MatchSet(model) ==
    IF model = <<>> THEN {}
    ELSE {k \in DOMAIN providers : Matches(providers[k], model)}

Selected(d) ==
    \/ tasks[d].pc \in {"wait_lock", "calling", "embed_add"}
    \/ /\ tasks[d].pc = "done"
       /\ \/ tasks[d].outcome.kind = "NoAvailableProviderError"
          \/ tasks[d].outcome.via = "provider"

\* C11: the candidate list of a dispatch is never empty, and when the
\* requested model is empty or matches no entry it is the whole provider
\* list, in priority order (ties in configuration order).
C11_FallbackToAll ==
    \A d \in Tasks :
        Selected(d) =>
            LET tk == tasks[d]
            IN  /\ tk.seq # <<>>
                /\ (tk.payload.model = <<>> \/ MatchSet(tk.payload.model) = {})
                   => /\ tk.seq = [k \in 1..Len(providers) |-> k]
                      /\ \A j, k \in 1..Len(tk.seq) :
                            j < k => Before(tk.seq[j], tk.seq[k])

\* two dispatches running on the whole list of a router: one names a
\* model no entry matches, the other names no model
C11_Witness ==
    \E d, o \in Tasks :
        /\ Selected(d) /\ Selected(o)
        /\ tasks[d].payload.model = S_zz /\ MatchSet(S_zz) = {}
        /\ tasks[o].payload.model = <<>>
        /\ Len(tasks[d].seq) = 2 /\ Len(tasks[o].seq) = 2

(* ---------------------- the exact-cache claims ------------------------ *)
\* C12: with TTL enabled, a get(k) that follows set(k, r) before the entry
\* expires returns a result with r's provider name, content and tool
\* calls; there is one entry per key, so that after two sets on a key the
\* get returns the value of the later one.
C12_RoundTrip ==
    (lastOp.op = "get" /\ lastOp.key \in DOMAIN written
        /\ lastOp.at <= written[lastOp.key][1].at + settings.cache_ttl)
    => /\ lastOp.res # None
       /\ lastOp.res[1].provider_name = written[lastOp.key][1].result.provider_name
       /\ lastOp.res[1].content = written[lastOp.key][1].result.content
       /\ lastOp.res[1].tool_calls = written[lastOp.key][1].result.tool_calls

\* a get returns the value of the second of two sets on its key, which
\* replaced a different value, while another key holds its own entry
C12_Witness ==
    /\ lastOp.op = "get" /\ lastOp.res # None
    /\ lastOp.key \in DOMAIN written
    /\ Len(written[lastOp.key]) = 2
    /\ written[lastOp.key][2].result # written[lastOp.key][1].result
    /\ lastOp.res[1] = written[lastOp.key][1].result
    /\ lastOp.res[1].tool_calls # <<>>
    /\ \E k \in DOMAIN cache : k # lastOp.key

\* C13: an entry stored at time t with TTL d is not returned by a get once
\* now is past t + d: the first such get of its key returns absent and
\* removes the entry, and nothing else removes an entry: every step other
\* than that get leaves each key of the map in the map, and every step
\* that is not a get or set of a key leaves that key's entry as it is.
C13_LazyExpiry ==
    [][ /\ (lastOp'.op = "get" /\ lastOp'.prev = cache /\ lastOp'.at = now
            /\ lastOp'.key \in DOMAIN written
            /\ now > written[lastOp'.key][1].at + settings.cache_ttl)
           => (lastOp'.res = None /\ lastOp'.key \notin DOMAIN cache')
        /\ \A k \in DOMAIN cache :
              /\ k \notin DOMAIN cache'
                 => /\ lastOp'.op = "get" /\ lastOp'.key = k /\ lastOp'.at = now
                    /\ cache[k].expires_at < now
              /\ (k \in DOMAIN cache' /\ cache'[k] # cache[k])
                 => lastOp'.op = "set" /\ lastOp'.key = k
      ]_vars

\* an expired entry was still in the map after operations on another key
\* and was removed by the get that found it expired
C13_Witness ==
    /\ lastOp.op = "get" /\ lastOp.res = None
    /\ lastOp.key \in DOMAIN lastOp.prev
    /\ lastOp.prev[lastOp.key].expires_at < lastOp.at
    /\ lastOp.key \notin DOMAIN cache
    /\ \E k \in DOMAIN written :
          k # lastOp.key /\ written[k][1].at > lastOp.prev[lastOp.key].expires_at

(* --------------------- the semantic-cache claims ---------------------- *)
\* the similarity of the last get's query to the k-th entry it scanned
Score(k) ==
    Similarity(_embed(_serialize_payload(lastOp.payload)), lastOp.prev[k].embedding)

\* what get returns for an entry
ResultOf(entry) ==
    [provider_name |-> entry.provider_name, content |-> entry.content,
     tool_calls |-> entry.tool_calls]

\* C14: SemanticCache.get returns an entry only if its similarity to the
\* query is at least the threshold and no stored entry scores strictly
\* higher; it returns None when every stored entry scores below the
\* threshold, and when the store is empty.
C14_BestAboveThreshold ==
    lastOp.op = "semantic_get" =>
        /\ lastOp.res # None
           => \E k \in 1..Len(lastOp.prev) :
                 /\ ResultOf(lastOp.prev[k]) = lastOp.res[1]
                 /\ Score(k) >= lastOp.threshold
                 /\ \A j \in 1..Len(lastOp.prev) : Score(j) <= Score(k)
        /\ (\A k \in 1..Len(lastOp.prev) : Score(k) < lastOp.threshold)
           => lastOp.res = None

\* of two entries above the threshold the first, which scores higher, is
\* returned
C14_Witness ==
    /\ lastOp.op = "semantic_get" /\ lastOp.res # None
    /\ Len(lastOp.prev) = 2
    /\ Score(1) > Score(2) /\ Score(2) >= lastOp.threshold
    /\ ResultOf(lastOp.prev[1]) # ResultOf(lastOp.prev[2])
    /\ lastOp.res[1] = ResultOf(lastOp.prev[1])

\* C15: when several stored entries tie for the best similarity,
\* SemanticCache.get returns the earliest-inserted of them.
C15_TieKeepsEarliest ==
    (lastOp.op = "semantic_get" /\ lastOp.res # None) =>
        LET tied == {k \in 1..Len(lastOp.prev) :
                        \A j \in 1..Len(lastOp.prev) : Score(j) <= Score(k)}
            first == CHOOSE k \in tied : \A j \in tied : k <= j
        IN  lastOp.res[1] = ResultOf(lastOp.prev[first])

\* the entry SemanticCache.add builds from its arguments
EntryOf(a) ==
    [embedding |-> _embed(_serialize_payload(a.payload)),
     provider_name |-> a.result.provider_name, content |-> a.result.content,
     tool_calls |-> a.result.tool_calls]

\* the entries of the last n calls of add, in the order of the calls
LastAdded(n) == [k \in 1..n |-> EntryOf(added[Len(added) - n + k])]

Min(a, b) == IF a <= b THEN a ELSE b

\* C16: after any sequence of add calls the store holds the entries of the
\* most recent min(k, max_entries) calls in insertion order; an add
\* appends its entry and evicts at most the one oldest entry, and a get
\* leaves the store as it is.
C16_Fifo ==
    [][ /\ entries' = LastAdded(Min(Len(added), settings.max_entries))'
        /\ added' # added
           => \/ entries' = Append(entries, EntryOf(added'[Len(added')]))
              \/ entries' = Tail(Append(entries, EntryOf(added'[Len(added')])))
        /\ added' = added => entries' = entries
      ]_vars

\* the third add evicted the first entry of a store of two, with gets in
\* between
C16_Witness ==
    /\ Len(added) = 3 /\ settings.max_entries = 2
    /\ lastOp.op = "semantic_get" /\ lastOp.res # None
    /\ entries = <<EntryOf(added[2]), EntryOf(added[3])>>
    /\ EntryOf(added[1]) \notin {entries[1], entries[2]}

\* the calls of add whose entries are still stored and whose payload has
\* the serialization of the last get's payload
SameSerialization ==
    {k \in (Len(added) - Len(entries) + 1)..Len(added) :
        _serialize_payload(added[k].payload) = _serialize_payload(lastOp.payload)}

SelfSimilarity ==
    Similarity(_embed(_serialize_payload(lastOp.payload)),
               _embed(_serialize_payload(lastOp.payload)))

BeginStep(d) == tasks[d].pc = "idle" /\ tasks'[d].pc # "idle"

\* the dispatch started in this step is answered from the exact cache, with
\* the provider name and content of the stored result r
AnsweredWith(d, r) ==
    /\ tasks'[d].pc = "done" /\ tasks'[d].outcome.via = "exact"
    /\ tasks'[d].outcome.result.provider_name = r.provider_name
    /\ tasks'[d].outcome.result.content = r.content
    /\ tasks'[d].trace = <<>>
    /\ plock' = plock /\ breakers' = breakers

SemanticHitStep(d) ==
    /\ tasks[d].pc = "embed_get"
    /\ tasks'[d].pc = "done"
    /\ tasks'[d].outcome.via = "semantic"

\* C19: a dispatch answered from the semantic cache invokes no provider,
\* changes no breaker and writes nothing to the exact cache or to the
\* semantic cache: neither the step that starts the semantic lookup nor
\* the step that returns the match does (the exact-cache lookup before it
\* can only drop the expired entry it found).
C19_SemanticHitTouchesNothing ==
    [][ \A d \in Tasks :
          /\ SemanticHitStep(d)
             => /\ breakers' = breakers /\ plock' = plock
                /\ cache' = cache /\ entries' = entries
                /\ tasks'[d].trace = <<>> /\ tasks'[d].seq = <<>>
                /\ \A o \in Tasks \ {d} : tasks'[o] = tasks[o]
          /\ (BeginStep(d) /\ tasks'[d].pc = "embed_get")
             => /\ breakers' = breakers /\ plock' = plock /\ entries' = entries
                /\ \A k \in DOMAIN cache' : k \in DOMAIN cache /\ cache'[k] = cache[k]
      ]_vars

\* a dispatch answered from the semantic cache while the other dispatch is
\* calling a provider and the breaker of the provider that produced the
\* stored result is Open
C19_Witness ==
    \E d \in Tasks :
        /\ tasks[d].pc = "done" /\ tasks[d].outcome.via = "semantic"
        /\ breakers[EntryNamed(tasks[d].outcome.result.provider_name)].state = OPEN
        /\ \E o \in Tasks \ {d} : tasks[o].pc = "calling"

\* C20: at most one complete() call is in flight on a provider at any
\* time, under any interleaving of the dispatches.
C20_OneCallPerProvider ==
    \A d, o \in Tasks :
        (d # o /\ tasks[d].pc = "calling" /\ tasks[o].pc = "calling")
        => tasks[d].seq[tasks[d].i] # tasks[o].seq[tasks[o].i]

\* calls on two providers are in flight at the same time: one dispatch
\* calls its first candidate while the other calls its second
C20_Witness ==
    \E d, o \in Tasks :
        /\ tasks[d].pc = "calling" /\ tasks[o].pc = "calling"
        /\ tasks[d].seq[tasks[d].i] # tasks[o].seq[tasks[o].i]
        /\ plock[tasks[d].seq[tasks[d].i]] = d
        /\ plock[tasks[o].seq[tasks[o].i]] = o
        /\ tasks[d].i = 1 /\ tasks[o].i = 2

(* --------------------------- the locks -------------------------------- *)
\* the Provider._lock instances task d holds
Held(d) == {i \in DOMAIN plock : plock[i] = d}

\* C21: a task that waits for a lock holds none, and a task holds at most
\* the lock of the one provider it is calling (the breaker and cache locks
\* are released before any suspension); every dispatch that waits for a
\* lock is eventually granted it, provided provider calls return.
C21_NoDeadlock ==
    /\ [](\A d \in Tasks :
            /\ tasks[d].pc = "wait_lock" => Held(d) = {}
            /\ tasks[d].pc \in {"idle", "done"} => Held(d) = {}
            /\ tasks[d].pc = "calling" => Held(d) = {tasks[d].seq[tasks[d].i]})
    /\ \A d \in Tasks : (tasks[d].pc = "wait_lock") ~> (tasks[d].pc = "calling")

\* a dispatch waits for the lock of the provider the other is calling
C21_Witness ==
    \E d, o \in Tasks :
        /\ tasks[d].pc = "wait_lock" /\ tasks[o].pc = "calling"
        /\ tasks[d].seq[tasks[d].i] = tasks[o].seq[tasks[o].i]
        /\ Held(o) = {tasks[o].seq[tasks[o].i]}
        /\ tasks[o].i = 2

\* the objects a cache stores: the lists of the cached results and of the
\* semantic entries, and the tool calls in them
Stored ==
    UNION ({Reach(heap, cache[k].result.tool_calls) : k \in DOMAIN cache}
           \cup {Reach(heap, entries[k].tool_calls) : k \in 1..Len(entries)})

\* the objects a cache read returned to caller c
Returned(c) == UNION {Reach(heap, h.ref) : h \in {x \in held[c] : x.from = "read"}}

\* C22: no object that a cache read returned to a caller, its tool-call
\* list included, is an object a cache stores or an object returned to
\* another caller
C22_NoSharedObject ==
    /\ \A c \in Tasks : Returned(c) \cap Stored = {}
    /\ \A c, o \in Tasks : c # o => Returned(c) \cap Returned(o) = {}

C24_SingleTrial ==
    (lastOp.op = "allow" /\ lastOp.prev.state = HALF_OPEN) => ~lastOp.res

\* the fields of a text, left to right
Names(text) == [k \in DOMAIN text |-> text[k][1]]

\* C25: two requests get the same exact-cache key exactly when they are
\* equal on model, messages, temperature, top_p, max_tokens, tools and
\* tool_choice, whatever the order of the fields
C25_KeyOfSevenFields ==
    lastOp.op = "cache_key" =>
        LET this == lastOp.payload
            that == lastOp.before.payload
        IN  (lastOp.key = lastOp.before.key)
            <=> (\A f \in {"model", "messages", "temperature", "top_p", "max_tokens",
                            "tools", "tool_choice"} : this[f] = that[f])

\* two texts with the fields in different orders, one giving the default
\* temperature and the other leaving it out, got the same key
C25_Witness ==
    /\ lastOp.op = "cache_key"
    /\ lastOp.key = lastOp.before.key
    /\ Len(lastOp.text) = 3 /\ Len(lastOp.before.text) = 2
    /\ Names(lastOp.text) = <<"temperature", "model", "messages">>
    /\ Names(lastOp.before.text) = <<"messages", "model">>

\* the change of state of breaker i in a step, as <<from, to>>
Change(i) == <<breakers[i].state, breakers'[i].state>>

\* C26: a breaker starts Closed and every change of its state is one of
\* Closed->Open, Open->HalfOpen, HalfOpen->Closed, HalfOpen->Open
C26_ListedTransitionsOnly ==
    /\ \A i \in DOMAIN breakers : breakers[i].state = CLOSED
    /\ [][\A i \in DOMAIN breakers :
            breakers'[i].state # breakers[i].state
            => Change(i) \in {<<CLOSED, OPEN>>, <<OPEN, HALF_OPEN>>,
                              <<HALF_OPEN, CLOSED>>, <<HALF_OPEN, OPEN>>}]_vars

\* C26, amended: a breaker starts Closed and every change of its state is
\* one of Closed->Open, Open->HalfOpen, HalfOpen->Closed, HalfOpen->Open,
\* or Open->Closed made by a record_success(); it never goes from Closed
\* to HalfOpen
C26_TransitionsWithLateSuccess ==
    /\ \A i \in DOMAIN breakers : breakers[i].state = CLOSED
    /\ [][\A i \in DOMAIN breakers :
            breakers'[i].state # breakers[i].state
            => \/ Change(i) \in {<<CLOSED, OPEN>>, <<OPEN, HALF_OPEN>>,
                                 <<HALF_OPEN, CLOSED>>, <<HALF_OPEN, OPEN>>}
               \/ /\ Change(i) = <<OPEN, CLOSED>>
                  /\ lastOp'.op = "success" /\ lastOp'.p = i]_vars

\* the success of a request admitted before the breaker opened is recorded
\* while the breaker is Open, before the recovery window has elapsed
C26_Witness ==
    /\ lastOp.op = "success" /\ lastOp.prev.state = OPEN
    /\ lastOp.at - lastOp.prev.last_failure < providers[lastOp.p].recovery_time_seconds
    /\ breakers[lastOp.p].state = CLOSED

\* C27: an allow_request() on an Open breaker returns true, and makes the
\* breaker HalfOpen, exactly when the time since the most recent
\* record_failure() is at least the recovery window; otherwise it returns
\* false and leaves the breaker as it was
C27_WindowFromLatestFailure ==
    (lastOp.op = "allow" /\ lastOp.prev.state = OPEN)
    => LET i == lastOp.p
           elapsed == lastOp.at - lastFailAt[i]
       IN  /\ lastFailAt[i] # NoTime
           /\ lastOp.res <=> elapsed >= providers[i].recovery_time_seconds
           /\ lastOp.res => breakers[i] = [lastOp.prev EXCEPT !.state = HALF_OPEN]
           /\ ~lastOp.res => breakers[i] = lastOp.prev

\* a failure recorded while the breaker was Open restarted the window: the
\* request is denied although the window has elapsed since the failure
\* before that one
C27_Witness ==
    /\ lastOp.op = "allow" /\ lastOp.prev.state = OPEN /\ ~lastOp.res
    /\ lastOp.before.op = "failure" /\ lastOp.before.prev.state = OPEN
    /\ lastOp.at - lastOp.before.prev.last_failure
          >= providers[lastOp.p].recovery_time_seconds
    /\ breakers[lastOp.p].state = OPEN

\* the call b may come right after the call a in the log of one dispatch
MayFollow(a, b) ==
    CASE b.op = "semantic_get" -> a.op = "cache_get"
      [] b.op = "allow_request" ->
            a.op \in {"cache_get", "semantic_get", "allow_request", "record_failure"}
      [] b.op = "complete" -> a = Access("allow_request", b.p)
      [] b.op \in {"record_failure", "record_success"} -> a = Access("complete", b.p)
      [] b.op = "cache_set" -> a.op = "record_success"
      [] b.op = "semantic_add" -> a.op = "cache_set"
      [] OTHER -> FALSE

\* the provider entries a log asked for admission, in order
Asked(log) ==
    LET asks == SelectSeq(log, LAMBDA a : a.op = "allow_request")
    IN  [k \in 1..Len(asks) |-> asks[k].p]

\* C28: the calls of one dispatch on the shared state come in the order
\* exact-cache read, semantic-cache read, then per candidate in candidate
\* order allow_request, complete, record_failure or record_success, then
\* the exact-cache write, then the semantic-cache write
C28_FixedOrder ==
    \A d \in Tasks :
        LET log == tasks[d].log
        IN  /\ log # <<>> => log[1] = Access("cache_get", 0)
            /\ \A k \in 2..Len(log) : MayFollow(log[k - 1], log[k])
            /\ Len(Asked(log)) <= Len(tasks[d].seq)
            /\ Asked(log) = SubSeq(tasks[d].seq, 1, Len(Asked(log)))

\* a dispatch went through every stage
C28_Witness ==
    \E d \in Tasks :
        /\ tasks[d].pc = "done"
        /\ tasks[d].log = <<Access("cache_get", 0), Access("semantic_get", 0),
                            Access("allow_request", 1), Access("complete", 1),
                            Access("record_success", 1), Access("cache_set", 0),
                            Access("semantic_add", 0)>>

\* C29: the embedding model of a SemanticCache is constructed at most
\* once, also when several calls reach their first use concurrently
C29_ModelLoadedOnce == loads <= 1

\* the requested name is, or normalizes to the same string as, an alias or
\* the canonical model of the entry
NamesEntry(cfg, model) ==
    \/ model \in cfg.aliases
    \/ \E alias \in cfg.aliases :
          _normalize_model_name(model) = _normalize_model_name(alias)
    \/ /\ cfg.canonical_model # S_none
       /\ _normalize_model_name(model) = _normalize_model_name(cfg.canonical_model)

\* C30: every entry that the requested model names, up to normalization,
\* by an alias or by its canonical model is among the candidates of the
\* dispatch
C30_NormalizedNamesSelect ==
    \A d \in Tasks :
        (tasks[d].seq # <<>> /\ tasks[d].payload.model # <<>>)
        => \A k \in DOMAIN providers :
              NamesEntry(providers[k], tasks[d].payload.model)
              => \E j \in 1..Len(tasks[d].seq) : tasks[d].seq[j] = k

(* ------------------- the exact cache switched off --------------------- *)
\* C31: with the exact-cache TTL disabled (TTL <= 0) the map of the exact
\* cache stays empty whatever dispatches ran, no dispatch is answered from
\* it, and every dispatch has gone on past its lookup by the end of its
\* first step: it awaits the embedding of the semantic lookup (or ended
\* with the error of that embedding) or it has made further calls.
C31_DisabledTtlStoresNothing ==
    ~_ttl_enabled(settings)
    => /\ cache = <<>>
       /\ written = <<>>
       /\ \A d \in Tasks :
             /\ tasks[d].outcome.via # "exact"
             /\ tasks[d].pc # "idle"
                => /\ tasks[d].log[1] = Access("cache_get", 0)
                   /\ \/ tasks[d].pc = "embed_get"
                      \/ tasks[d].pc = "done" /\ tasks[d].outcome.kind = "error"
                      \/ Len(tasks[d].log) >= 2

\* with a negative TTL, a dispatch succeeded on a provider (so _cache_set
\* was called with its result) and the same request is sent again and goes
\* past the exact cache
C31_Witness ==
    /\ settings.cache_ttl < 0
    /\ \E d, o \in Tasks :
          /\ tasks[d].pc = "done" /\ tasks[d].outcome.via = "provider"
          /\ Access("cache_set", 0) \in {tasks[d].log[k] : k \in DOMAIN tasks[d].log}
          /\ tasks[o].pc = "calling"
          /\ tasks[o].payload = [tasks[d].payload EXCEPT !.tool_calls = tasks[o].payload.tool_calls]

(* ----------------------- recovery of a breaker ------------------------ *)
\* the upstream of entry i has stopped failing: its breaker counts
\* MaxFailures failures, after which complete() only returns
Recovered(i) == breakers[i].failure_count >= MaxFailures

\* the breaker of entry i is Open and its recovery window has elapsed
WindowElapsed(i) ==
    /\ breakers[i].state = OPEN
    /\ breakers[i].last_failure # NoTime
    /\ now - breakers[i].last_failure >= providers[i].recovery_time_seconds

\* a request is admitted to entry i: a dispatch calls it or is about to
Admitted(i) ==
    \/ breakers[i].state # OPEN
    \/ \E d \in Tasks : /\ tasks[d].pc \in {"wait_lock", "calling"}
                        /\ tasks[d].seq[tasks[d].i] = i

\* C32: when the breaker of the first provider is Open, its recovery
\* window has elapsed and its upstream has stopped failing, then, while
\* dispatches that reach the providers keep arriving, a request is
\* eventually admitted to it and its breaker eventually is Closed again.
C32_OpenBreakerRecovers ==
    /\ (WindowElapsed(1) /\ Recovered(1)) ~> Admitted(1)
    /\ (WindowElapsed(1) /\ Recovered(1)) ~> (breakers[1].state = CLOSED)

\* the breaker with threshold and window 2 is Open with the window elapsed
\* while no dispatch is in progress
C32_Witness ==
    /\ WindowElapsed(1) /\ Recovered(1)
    /\ providers[1].recovery_time_seconds = 2
    /\ \A d \in Tasks : tasks[d].pc = "idle"

(* ------------------ state and counters of a breaker ------------------- *)
\* C33: in every reachable state of a breaker that started Closed with
\* count 0, the state is Closed exactly when the failure count is below
\* the threshold, and an Open or HalfOpen breaker has a failure count at or
\* above the threshold and a last-failure timestamp.
C33_ClosedIffBelowThreshold ==
    \A i \in DOMAIN breakers :
        /\ breakers[i].state = CLOSED
           <=> breakers[i].failure_count < providers[i].failure_threshold
        /\ breakers[i].state \in {OPEN, HALF_OPEN}
           => /\ breakers[i].failure_count >= providers[i].failure_threshold
              /\ breakers[i].last_failure # NoTime

\* a HalfOpen breaker of threshold 3 that failed a trial before: its count
\* is above the threshold
C33_Witness ==
    /\ lastOp.p \in DOMAIN breakers
    /\ lastOp.op = "allow" /\ lastOp.res
    /\ providers[lastOp.p].failure_threshold = 3
    /\ breakers[lastOp.p].state = HALF_OPEN
    /\ breakers[lastOp.p].failure_count = 4

(* --------------- what a failed dispatch leaves behind ----------------- *)
\* a step of dispatch d
StepOf(d) == tasks'[d] # tasks[d]

\* the step in which the complete() call of dispatch d returns a result
SuccessStep(d) == tasks[d].pc = "calling" /\ tasks'[d].result # NoResult

\* the step in which dispatch d, after that, adds to the semantic cache
AddStep(d) == tasks[d].pc = "embed_add" /\ tasks'[d].outcome.kind = "result"

\* dispatch d ends with NoAvailableProvider in this step
Exhausts(d) ==
    /\ tasks[d].pc # "done"
    /\ tasks'[d].pc = "done"
    /\ tasks'[d].outcome.kind = "NoAvailableProviderError"

\* the lookup of dispatch d found the entry under its key expired and
\* deleted it; nothing else changed in the exact cache
ExpiredDropped(d) ==
    LET key == tasks'[d].cache_key
    IN  /\ tasks[d].pc = "idle"
        /\ key \in DOMAIN cache
        /\ cache[key].expires_at < now
        /\ cache' = [k \in DOMAIN cache \ {key} |-> cache[k]]

\* C34 as stated: a dispatch that ends with NoAvailableProvider leaves the
\* exact cache and the semantic cache exactly as they were; here for the
\* dispatch that every breaker denies, which begins and ends in one step.
C34_ExhaustedLeavesCachesAsTheyWere ==
    [][ \A d \in Tasks :
          (tasks[d].pc = "idle" /\ Exhausts(d))
          => cache' = cache /\ entries' = entries
      ]_vars

\* C34, amended: a dispatch that ends with NoAvailableProvider writes no
\* entry to either cache and leaves the semantic cache unchanged; the only
\* change it can make to the exact cache is to delete, at its lookup, the
\* expired entry under its own key. Entries are written only in the steps
\* that follow a successful complete(), and no such step belongs to a
\* dispatch that ends with NoAvailableProvider.
C34_FailedDispatchWritesNothing ==
    [][ \A d \in Tasks :
          StepOf(d) =>
            /\ (~SuccessStep(d) /\ ~AddStep(d))
               => /\ entries' = entries
                  /\ written' = written
                  /\ cache' = cache \/ ExpiredDropped(d)
            /\ Exhausts(d)
               => /\ tasks'[d].result = NoResult
                  /\ \A j \in DOMAIN tasks'[d].trace :
                        tasks'[d].trace[j].outcome \in {"skipped", "failed"}
                  /\ \A k \in DOMAIN tasks'[d].log :
                        tasks'[d].log[k].op \notin
                            {"record_success", "cache_set", "semantic_add"}
      ]_vars

\* a dispatch ended with NoAvailableProvider after its lookup deleted the
\* expired entry that an earlier success had stored under its key; the
\* semantic cache still holds that earlier result
C34_Witness ==
    \E d \in Tasks :
        /\ tasks[d].pc = "done"
        /\ tasks[d].outcome.kind = "NoAvailableProviderError"
        /\ tasks[d].cache_key \in DOMAIN written
        /\ tasks[d].cache_key \notin DOMAIN cache
        /\ entries # <<>>

(* ---------------------- one pass over the candidates ------------------ *)
\* the number of calls op on entry e that a log records
Calls(log, op, e) == Cardinality({k \in DOMAIN log : log[k] = Access(op, e)})

\* C35: a dispatch consults the breaker of each candidate at most once and
\* invokes each provider at most once, it never goes through more
\* candidates than its list has, and, provided every provider call returns
\* or raises, every dispatch ends.
C35_OnePassThenEnds ==
    /\ [](\A d \in Tasks :
            /\ Len(tasks[d].trace) <= Len(tasks[d].seq)
            /\ \A e \in DOMAIN providers :
                  /\ Calls(tasks[d].log, "allow_request", e) <= 1
                  /\ Calls(tasks[d].log, "complete", e) <= 1
                  /\ Calls(tasks[d].log, "complete", e) = 1
                     => \E j \in DOMAIN tasks[d].seq : tasks[d].seq[j] = e)
    /\ \A d \in Tasks : (tasks[d].pc # "idle") ~> (tasks[d].pc = "done")

\* a dispatch ended after both of its candidates failed, each called once
C35_Witness ==
    \E d \in Tasks :
        /\ tasks[d].pc = "done"
        /\ tasks[d].outcome.kind = "NoAvailableProviderError"
        /\ Len(tasks[d].seq) = 2
        /\ \A e \in DOMAIN providers : Calls(tasks[d].log, "complete", e) = 1

(* ------------- the candidates a dispatch does not reach --------------- *)
\* the provider entries dispatch record tk has consulted
Reached(tk) == {tk.trace[j].p : j \in DOMAIN tk.trace}

\* C36: a dispatch changes the breaker and takes the lock of no entry but
\* the candidates it has consulted, which are the first ones of its
\* candidate list in order; when it succeeds on the candidate at position
\* i it has consulted exactly the candidates up to i, so the candidates
\* after i and the entries outside the list were neither invoked nor had
\* their breakers changed by it.
C36_LaterCandidatesUntouched ==
    [][ \A d \in Tasks :
          StepOf(d) =>
            LET tk == tasks'[d]
                n == Len(tk.trace)
            IN  /\ \A e \in DOMAIN breakers :
                      (breakers'[e] # breakers[e] \/ plock'[e] # plock[e])
                      => e \in Reached(tk)
                /\ n <= Len(tk.seq)
                /\ \A j \in 1..n : tk.trace[j].p = tk.seq[j]
                /\ \A k \in DOMAIN tk.log : tk.log[k].p # 0 => tk.log[k].p \in Reached(tk)
                /\ tasks[d].pc \notin {"idle", "done"}
                   => /\ Len(tasks[d].trace) <= n
                      /\ \A j \in DOMAIN tasks[d].trace : tk.trace[j].p = tasks[d].trace[j].p
                /\ SuccessStep(d)
                   => /\ n = tasks[d].i
                      /\ \A j \in (n + 1)..Len(tk.seq) :
                            /\ tk.seq[j] \notin Reached(tk)
                            /\ breakers'[tk.seq[j]] = breakers[tk.seq[j]]
                      /\ \A e \in DOMAIN breakers :
                            breakers'[e] # breakers[e] => e = tk.seq[n]
      ]_vars

\* a dispatch succeeded on the first of its two candidates while the
\* breaker of the second was Open with its window elapsed, and a third
\* entry is outside its candidate list
C36_Witness ==
    \E d \in Tasks :
        /\ tasks[d].pc = "done" /\ tasks[d].outcome.via = "provider"
        /\ tasks[d].i = 1 /\ Len(tasks[d].seq) = 2 /\ Len(providers) = 3
        /\ breakers[tasks[d].seq[2]].state = OPEN
        /\ now - breakers[tasks[d].seq[2]].last_failure
              >= providers[tasks[d].seq[2]].recovery_time_seconds

(* ------------------- what allow_request changes ----------------------- *)
\* C37: allow_request never changes the failure count or the last-failure
\* timestamp of a breaker; the only change of state it makes is Open to
\* HalfOpen, together with the answer true; a call that answers false, and
\* a call on a Closed or HalfOpen breaker, leave the breaker as it was.
C37_AllowChangesOnlyOpenToHalfOpen ==
    (lastOp.op = "allow")
    => LET b == breakers[lastOp.p]
           prev == lastOp.prev
       IN  /\ b.failure_count = prev.failure_count
           /\ b.last_failure = prev.last_failure
           /\ b.state # prev.state
              => prev.state = OPEN /\ b.state = HALF_OPEN /\ lastOp.res
           /\ ~lastOp.res => b = prev
           /\ prev.state \in {CLOSED, HALF_OPEN} => b = prev /\ lastOp.res

\* allow_request moved an Open breaker with 4 failures on record to
\* HalfOpen
C37_Witness ==
    /\ lastOp.op = "allow" /\ lastOp.res
    /\ lastOp.prev.state = OPEN
    /\ breakers[lastOp.p].state = HALF_OPEN
    /\ breakers[lastOp.p].failure_count = 4
    /\ breakers[lastOp.p].last_failure = 1

(* ------------------ the size of the semantic cache -------------------- *)
\* C38: a semantic cache with max_entries >= 0 never holds more than
\* max_entries entries, whatever add and get calls overlap and whenever
\* one of them completes.
C38_AtMostMaxEntries == Len(entries) <= settings.max_entries

\* the cache of capacity 2 is full while an add and a get are both
\* awaiting their embedding
C38_Witness ==
    /\ settings.max_entries = 2
    /\ Len(entries) = 2
    /\ \E c, o \in Tasks :
          /\ tasks[c].pc = "encode" /\ tasks[c].call = "add"
          /\ tasks[o].pc = "encode" /\ tasks[o].call = "get"

(* ------------- when a dispatch uses the semantic cache ---------------- *)
\* semantic caching is active for a call: the override when one is given,
\* else the configured default
Active(semantic_enabled) ==
    IF semantic_enabled = None THEN settings.semantic_enabled ELSE semantic_enabled[1]

\* the threshold in effect for a call
Effective(semantic_threshold) ==
    IF semantic_threshold = None THEN settings.threshold_default ELSE semantic_threshold[1]

\* the calls of a log on the semantic cache
SemanticCalls(log) ==
    {log[k].op : k \in DOMAIN log} \cap {"semantic_get", "semantic_add"}

====
